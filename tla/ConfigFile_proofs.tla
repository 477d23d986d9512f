------------------------- MODULE ConfigFile_proofs --------------------------
(***************************************************************************)
(* The configuration reader, for files of any length, lines of any         *)
(* characters and buffers of any size: the value being collected keeps     *)
(* room for its terminator, however many lines are joined; the tests of a  *)
(* line tell what was written; and what is returned is what the file says. *)
(***************************************************************************)
EXTENDS ConfigFile, FiniteSetTheorems, SequenceTheorems, TLAPS

LineTexts == Seq(Chars)

(* A set of places in a line has a first one.  The sets 1 .. i are ordered *)
(* by inclusion as their last elements are, and inclusion of finite sets   *)
(* is well-founded.                                                        *)
LEMMA LeastPlace ==
  ASSUME NEW n \in Nat, NEW S \in SUBSET (1 .. n), S # {}
  PROVE  Least(S) \in S /\ \A j \in S : Least(S) <= j
<1> DEFINE upTo == {1 .. i : i \in S}
<1>1. upTo \subseteq FiniteSubsetsOf(1 .. n) /\ upTo # {}
  <2>1. ASSUME NEW i \in S PROVE 1 .. i \in FiniteSubsetsOf(1 .. n)
    <3>1. i \in 1 .. n /\ i \in Int
      OBVIOUS
    <3>2. IsFiniteSet(1 .. i)
      BY <3>1, FS_Interval
    <3> QED BY <3>1, <3>2 DEF FiniteSubsetsOf
  <2> QED BY <2>1
<1>2. PICK a \in upTo : \A b \in upTo : <<b, a>> \notin StrictSubsetOrdering(1 .. n)
  <2> HIDE DEF upTo
  <2> QED BY <1>1, FS_StrictSubsetOrderingWellFounded, WFMin
<1>3. PICK i \in S : a = 1 .. i
  OBVIOUS
<1>4. ASSUME NEW j \in S, j < i PROVE FALSE
  <2>1. i \in 1 .. n /\ j \in 1 .. n
    OBVIOUS
  <2>2. 1 .. j \subseteq 1 .. i /\ i \in 1 .. i /\ i \notin 1 .. j
    BY <2>1, <1>4
  <2>3. 1 .. j \in SUBSET (1 .. n) /\ a \in SUBSET (1 .. n)
    BY <2>1, <1>3
  <2>4. <<1 .. j, a>> \in StrictSubsetOrdering(1 .. n)
    BY <2>2, <2>3, <1>3 DEF StrictSubsetOrdering
  <2> QED BY <2>4, <1>2
<1>5. \A j \in S : i <= j
  BY <1>4
<1> QED BY <1>5 DEF Least

-----------------------------------------------------------------------------
(* Parts of a line are texts, and so are the lines of the file.            *)
LEMMA FromText ==
  ASSUME NEW s \in LineTexts, NEW i \in 1 .. Len(s) + 1
  PROVE  From(s, i) \in LineTexts
BY SubSeqProperties DEF From, LineTexts

LEMMA RenderedText ==
  ASSUME NEW e \in Entries
  PROVE  Rendered(e) \in LineTexts
<1> DEFINE pad  == IF e.wide THEN <<Blank>> ELSE <<>>
           tail == IF e.joint THEN <<Blank, Backslash>> ELSE pad
<1>2. /\ <<Opening>> \in LineTexts /\ <<Closing>> \in LineTexts /\ <<Equals>> \in LineTexts
      /\ <<Hash>> \in LineTexts /\ <<Blank>> \in LineTexts /\ <<Blank, Backslash>> \in LineTexts
      /\ <<>> \in LineTexts
  <2>1. ASSUME NEW c \in Chars PROVE <<c>> \in LineTexts
    BY DEF LineTexts
  <2>2. ASSUME NEW c \in Chars, NEW d \in Chars PROVE <<c, d>> \in LineTexts
    BY DEF LineTexts
  <2>3. <<>> \in LineTexts
    BY DEF LineTexts
  <2>4. /\ Opening \in Chars /\ Closing \in Chars /\ Equals \in Chars /\ Hash \in Chars
        /\ Blank \in Chars /\ Backslash \in Chars
    BY DEF Chars, Marks
  <2>5. <<Blank, Backslash>> \in LineTexts
    BY <2>2, <2>4
  <2> QED BY <2>1, <2>3, <2>4, <2>5
<1>1. pad \in LineTexts /\ tail \in LineTexts
  BY <1>2, EntriesAssumption
<1>3. e.name \in LineTexts /\ e.value \in LineTexts
  BY EntriesAssumption DEF LineTexts
<1>4. \A s, t \in LineTexts : s \o t \in LineTexts
  BY ConcatProperties DEF LineTexts
<1>5. CASE e.kind = "section"
  <2>1. Rendered(e) = pad \o <<Opening>> \o e.name \o <<Closing>> \o pad
    BY <1>5 DEF Rendered
  <2> HIDE DEF pad, tail
  <2>2. pad \o <<Opening>> \in LineTexts
    BY <1>1, <1>2, <1>4
  <2>3. pad \o <<Opening>> \o e.name \in LineTexts
    BY <2>2, <1>3, <1>4
  <2>4. pad \o <<Opening>> \o e.name \o <<Closing>> \in LineTexts
    BY <2>3, <1>2, <1>4
  <2> QED BY <2>1, <2>4, <1>1, <1>4
<1>6. CASE e.kind = "key"
  <2>1. Rendered(e) = (pad \o e.name \o pad) \o <<Equals>> \o (pad \o e.value \o tail)
    BY <1>6 DEF Rendered
  <2> HIDE DEF pad, tail
  <2>2. pad \o e.name \in LineTexts /\ pad \o e.value \in LineTexts
    BY <1>1, <1>3, <1>4
  <2>3. pad \o e.name \o pad \in LineTexts /\ pad \o e.value \o tail \in LineTexts
    BY <2>2, <1>1, <1>4
  <2>4. (pad \o e.name \o pad) \o <<Equals>> \in LineTexts
    BY <2>3, <1>2, <1>4
  <2> QED BY <2>1, <2>3, <2>4, <1>4
<1>7. CASE e.kind = "part"
  <2>1. Rendered(e) = pad \o e.value \o tail
    BY <1>7 DEF Rendered
  <2> HIDE DEF pad, tail
  <2> QED BY <2>1, <1>1, <1>3, <1>4
<1>8. CASE e.kind = "remark"
  <2>1. Rendered(e) = pad \o <<Hash>> \o e.value
    BY <1>8 DEF Rendered
  <2> HIDE DEF pad, tail
  <2>2. pad \o <<Hash>> \in LineTexts
    BY <1>1, <1>2, <1>4
  <2> QED BY <2>1, <2>2, <1>3, <1>4
<1> QED BY <1>5, <1>6, <1>7, <1>8, EntriesAssumption

LEMMA LineText ==
  ASSUME NEW e \in Entries, NEW whole \in BOOLEAN
  PROVE  readline(Rendered(e), whole) \in LineTexts
<1>1. Rendered(e) \in LineTexts
  BY RenderedText
<1> DEFINE s == Rendered(e)
<1> HIDE DEF s
<1>2. \A i \in 1 .. Len(s) - 1 : s[i] \in Chars
  BY <1>1 DEF LineTexts, s
<1>3. Len(s) - 1 \in Int
  BY <1>1 DEF LineTexts, s
<1>4. SubSeq(s, 1, Len(s) - 1) \in LineTexts
  BY <1>2, <1>3, SubSeqProperties DEF LineTexts
<1> QED BY <1>1, <1>4 DEF readline, s

-----------------------------------------------------------------------------
(* What a line gives leaves room in kev for the terminator (getkeyvalue,   *)
(* getkeyadd).                                                             *)
LEMMA CutFits ==
  ASSUME NEW s \in LineTexts, NEW room \in Nat \ {0}
  PROVE  Cut(s, room).text \in LineTexts /\ Len(Cut(s, room).text) < room
<1>1. CASE Graph(s) = {}
  <2>1. Cut(s, room).text = <<>>
    BY <1>1 DEF Cut
  <2> QED BY <2>1 DEF LineTexts
<1>2. CASE Graph(s) # {}
  <2> DEFINE i    == Least(Graph(s))
             stop == {j \in i .. Len(s) : s[j] \in Blanks}
             j    == IF stop = {} THEN Len(s) + 1 ELSE Least(stop)
             w    == SubSeq(s, i, j - 1)
  <2>1. Len(s) \in Nat /\ Graph(s) \in SUBSET (1 .. Len(s))
    BY DEF Graph, LineTexts
  <2>2. i \in 1 .. Len(s)
    BY <2>1, <1>2, LeastPlace
  <2>3. j \in 1 .. Len(s) + 1
    <3>1. CASE stop = {}
      BY <3>1, <2>1
    <3>2. CASE stop # {}
      <4>1. stop \in SUBSET (1 .. Len(s))
        BY <2>1, <2>2
      <4>2. Least(stop) \in stop
        <5> HIDE DEF stop
        <5> QED BY <4>1, <3>2, <2>1, LeastPlace
      <4>3. j = Least(stop)
        BY <3>2
      <4>4. Least(stop) \in 1 .. Len(s)
        <5> HIDE DEF stop
        <5> QED BY <4>1, <4>2
      <4> HIDE DEF j, stop
      <4> QED BY <4>3, <4>4, <2>1
    <3> QED BY <3>1, <3>2
  <2>4. Word(s).text = w
    BY DEF Word
  <2> HIDE DEF i, j
  <2>5. w \in LineTexts /\ Len(w) \in Nat
    BY <2>1, <2>2, <2>3, SubSeqProperties DEF LineTexts
  <2> HIDE DEF w
  <2>6. CASE room > Len(w)
    <3>1. Cut(s, room).text = w
      BY <1>2, <2>4, <2>6 DEF Cut
    <3> QED BY <3>1, <2>5, <2>6
  <2>7. CASE ~(room > Len(w))
    <3>1. Cut(s, room).text = SubSeq(w, 1, room - 1)
      <4>1. Cut(s, room) = [Word(s) EXCEPT !.text = SubSeq(@, 1, room - 1)]
        BY <1>2, <2>4, <2>7 DEF Cut
      <4> QED BY <4>1, <2>4 DEF Word
    <3>2. SubSeq(w, 1, room - 1) \in LineTexts /\ Len(SubSeq(w, 1, room - 1)) = room - 1
      <4>1. 1 \in Int /\ room - 1 \in Int /\ \A k \in 1 .. room - 1 : w[k] \in Chars
        BY <2>5, <2>7 DEF LineTexts
      <4>2. SubSeq(w, 1, room - 1) \in Seq(Chars)
            /\ Len(SubSeq(w, 1, room - 1)) = IF 1 <= room - 1 THEN room - 1 - 1 + 1 ELSE 0
        BY <4>1, SubSeqProperties
      <4> QED BY <4>2 DEF LineTexts
    <3> QED BY <3>1, <3>2
  <2> QED BY <2>6, <2>7
<1> QED BY <1>1, <1>2

(* The value of the key looked for stands behind a sign of equality.       *)
LEMMA KeyValueFits ==
  ASSUME NEW s \in LineTexts, getkeyname(s) = KeyName
  PROVE  getkeyvalue(s).text \in LineTexts /\ Len(getkeyvalue(s).text) < LineLen
<1>1. Where(s, Equals) # {} /\ Where(s, Equals) \in SUBSET (1 .. Len(s)) /\ Len(s) \in Nat
  BY KeyAssumption DEF getkeyname, Where, LineTexts
<1>2. Least(Where(s, Equals)) \in 1 .. Len(s)
  BY <1>1, LeastPlace
<1>3. From(s, Least(Where(s, Equals)) + 1) \in LineTexts
  BY <1>1, <1>2, FromText
<1> QED BY <1>3, CutFits, SizesAssumption DEF getkeyvalue

-----------------------------------------------------------------------------
(* TypeOK, and that the file and the value are what they are called.       *)
TypeInv ==
  /\ TypeOK
  /\ entries \in Seq(Entries) /\ newline \in BOOLEAN
  /\ kev \in LineTexts
  /\ found < 2 /\ result = Running => kev = <<>>

LEMMA TypeInit == Init => TypeInv
<1> SUFFICES ASSUME Init PROVE TypeInv
  OBVIOUS
<1>1. PICK n \in 1 .. MaxLines : entries \in [1 .. n -> Entries]
  BY DEF Init
<1>2. entries \in Seq(Entries)
  <2>1. n \in Nat
    BY <1>1
  <2> QED BY <1>1, <2>1, IsASeq
<1>3. Len(entries) \in Nat
  BY <1>2
<1>4. kev \in LineTexts /\ Len(kev) = 0 /\ newline \in BOOLEAN
  BY DEF Init, LineTexts
<1>5. result.code = -1 /\ result.value = <<>> /\ result.ended = TRUE
  BY DEF Init, Running
<1>6. Len(result.value) = 0 /\ pos = 0 /\ found = 0 /\ kev = <<>>
  BY <1>5 DEF Init
<1>7. TypeOK
  <2>1. pos \in 0 .. Len(entries) /\ found \in 0 .. 2
    BY <1>3, <1>6
  <2>2. Len(kev) < LineLen /\ Len(result.value) <= BufLen
    BY <1>4, <1>6, SizesAssumption
  <2>3. result.code \in {-1, 0, 3, 4, 5} /\ result.ended \in BOOLEAN
    BY <1>5
  <2> QED BY <2>1, <2>2, <2>3 DEF TypeOK
<1> QED BY <1>2, <1>4, <1>6, <1>7 DEF TypeInv

(* Every return stores at most what the caller's buffer takes.             *)
LEMMA ReturnFits ==
  ASSUME NEW code \in {0, 3, 4, 5}, kev' \in LineTexts, Return(code)
  PROVE  result'.code = code /\ Len(result'.value) <= BufLen /\ result'.ended \in BOOLEAN
<1> DEFINE n == IF Len(kev') > BufLen THEN BufLen ELSE Len(kev')
<1>1. n \in Nat /\ n <= BufLen /\ n <= Len(kev')
  BY SizesAssumption DEF LineTexts
<1>2. result'.code = code /\ result'.ended \in BOOLEAN
      /\ result'.value = IF code = 0 THEN SubSeq(kev', 1, n) ELSE <<>>
  BY DEF Return
<1> HIDE DEF n
<1>3. Len(SubSeq(kev', 1, n)) = n
  <2>1. \A k \in 1 .. n : kev'[k] \in Chars
    BY <1>1 DEF LineTexts
  <2>2. Len(SubSeq(kev', 1, n)) = IF 1 <= n THEN n - 1 + 1 ELSE 0
    BY <1>1, <2>1, SubSeqProperties
  <2> QED BY <1>1, <2>2
<1> QED BY <1>1, <1>2, <1>3, SizesAssumption

(* A part that fits in what is left of kev keeps the types.                *)
LEMMA CollectFits ==
  ASSUME TypeInv, NEW w, w.text \in LineTexts, Len(kev) + Len(w.text) < LineLen, Collect(w)
  PROVE  /\ kev' \in LineTexts /\ Len(kev') < LineLen /\ found' \in 0 .. 2
         /\ result'.code \in {-1, 0, 3, 4, 5} /\ Len(result'.value) <= BufLen
         /\ result'.ended \in BOOLEAN /\ (found' < 2 => result' # Running)
<1>0. Running.code = -1
  BY DEF Running
<1>1. kev' \in LineTexts /\ Len(kev') = Len(kev) + Len(w.text)
  <2>1. kev' = kev \o w.text
    BY DEF Collect
  <2> QED BY <2>1, ConcatProperties DEF TypeInv, LineTexts
<1>2. CASE found' = 2 /\ UNCHANGED result
  <2>1. found' \in 0 .. 2
    BY <1>2
  <2> QED BY <1>1, <1>2, <2>1 DEF TypeInv, TypeOK
<1>3. CASE Return(0) \/ Return(4)
  <2>1. found' \in 0 .. 2
    BY DEF Collect, TypeInv, TypeOK
  <2>2. CASE Return(0)
    BY <1>0, <1>1, <2>1, <2>2, ReturnFits
  <2>3. CASE Return(4)
    BY <1>0, <1>1, <2>1, <2>3, ReturnFits
  <2> QED BY <1>3, <2>2, <2>3
<1> QED BY <1>2, <1>3 DEF Collect

LEMMA TypeStep == TypeInv /\ [Next]_vars => TypeInv'
<1> SUFFICES ASSUME TypeInv, [Next]_vars PROVE TypeInv'
  OBVIOUS
<1>1. CASE Read
  <2> DEFINE s == Line(pos + 1)
  <2>1. pos + 1 \in 1 .. Len(entries) /\ pos' = pos + 1 /\ Len(entries) \in Nat
        /\ entries' = entries /\ newline' = newline
    BY <1>1 DEF Read, TypeInv, TypeOK
  <2>2. s \in LineTexts
    <3>1. entries[pos + 1] \in Entries
      BY <2>1 DEF TypeInv
    <3>2. (pos + 1 < Len(entries) \/ newline) \in BOOLEAN
      OBVIOUS
    <3> QED BY <3>1, <3>2, LineText DEF Line
  <2>3. \/ Skip
        \/ found < 2 /\ found' \in {0, 1} /\ UNCHANGED <<kev, result>>
        \/ getkeyname(s) = KeyName /\ found = 1 /\ Collect(getkeyvalue(s))
        \/ found = 2 /\ Collect(getkeyadd(s))
    <3>1. Line(pos') = s
      BY <2>1
    <3> HIDE DEF s
    <3> QED BY <1>1, <3>1 DEF Read
  <2> HIDE DEF s
  <2>4. /\ kev' \in LineTexts /\ Len(kev') < LineLen /\ found' \in 0 .. 2
        /\ result'.code \in {-1, 0, 3, 4, 5} /\ Len(result'.value) <= BufLen
        /\ result'.ended \in BOOLEAN
        /\ found' < 2 /\ result' = Running => kev' = <<>>
    <3>1. CASE Skip
      BY <3>1 DEF Skip, TypeInv, TypeOK
    <3>2. CASE found < 2 /\ found' \in {0, 1} /\ UNCHANGED <<kev, result>>
      BY <3>2 DEF TypeInv, TypeOK
    <3>3. CASE getkeyname(s) = KeyName /\ found = 1 /\ Collect(getkeyvalue(s))
      <4>1. kev = <<>>
        BY <1>1, <3>3 DEF Read, TypeInv
      <4>2. getkeyvalue(s).text \in LineTexts /\ Len(getkeyvalue(s).text) < LineLen
        BY <3>3, <2>2, KeyValueFits
      <4>3. Len(kev) + Len(getkeyvalue(s).text) < LineLen
        BY <4>1, <4>2 DEF LineTexts
      <4> QED BY <3>3, <4>2, <4>3, CollectFits
    <3>4. CASE found = 2 /\ Collect(getkeyadd(s))
      <4>1. LineLen - Len(kev) \in Nat \ {0} /\ Len(kev) \in Nat
        BY SizesAssumption DEF TypeInv, TypeOK, LineTexts
      <4>2. getkeyadd(s).text \in LineTexts /\ Len(getkeyadd(s).text) < LineLen - Len(kev)
        BY <4>1, <2>2, CutFits DEF getkeyadd
      <4>3. Len(getkeyadd(s).text) \in Nat
        BY <4>2 DEF LineTexts
      <4>4. Len(kev) + Len(getkeyadd(s).text) < LineLen
        BY <4>1, <4>2, <4>3, SizesAssumption
      <4> QED BY <3>4, <4>2, <4>4, CollectFits
    <3> QED BY <2>3, <3>1, <3>2, <3>3, <3>4
  <2> QED BY <2>1, <2>4 DEF TypeInv, TypeOK
<1>2. CASE EndOfFile
  <2>1. kev' = kev /\ UNCHANGED <<entries, newline, pos, found>> /\ (Return(3) \/ Return(5))
    BY <1>2 DEF EndOfFile
  <2>2. kev' \in LineTexts
    BY <2>1 DEF TypeInv
  <2>3. result'.code \in {3, 5} /\ Len(result'.value) <= BufLen /\ result'.ended \in BOOLEAN
    <3>1. CASE Return(3)
      BY <3>1, <2>2, ReturnFits
    <3>2. CASE Return(5)
      BY <3>2, <2>2, ReturnFits
    <3> QED BY <2>1, <3>1, <3>2
  <2>4. result' # Running
    BY <2>3 DEF Running
  <2> QED BY <2>1, <2>3, <2>4 DEF TypeInv, TypeOK
<1>3. CASE UNCHANGED vars
  BY <1>3 DEF vars, TypeInv, TypeOK
<1> QED BY <1>1, <1>2, <1>3 DEF Next

(* Every variable keeps its type for files of any length: kev, an array of *)
(* LINE_LEN characters, always has room for its terminator, and the caller *)
(* gets no more characters than his buffer has (getconfigstr).             *)
THEOREM TypeCorrect == Spec => []TypeOK
<1>1. TypeInv => TypeOK
  BY DEF TypeInv
<1> QED BY <1>1, TypeInit, TypeStep, PTL DEF Spec
-----------------------------------------------------------------------------
(* What the tests of a line find in a line that is written as an entry.    *)
Words    == Seq(Letters)
Pad(e)   == IF e.wide THEN <<Blank>> ELSE <<>>
After(e) == IF e.joint THEN <<Blank, Backslash>> ELSE Pad(e)
NameText(e)  == Pad(e) \o e.name \o Pad(e)
ValueText(e) == Pad(e) \o e.value \o After(e)

LEMMA Written ==
  ASSUME NEW e \in Entries
  PROVE  /\ e.kind = "section" => Rendered(e) = Pad(e) \o <<Opening>> \o e.name \o <<Closing>> \o Pad(e)
         /\ e.kind = "key"     => Rendered(e) = NameText(e) \o <<Equals>> \o ValueText(e)
         /\ e.kind = "part"    => Rendered(e) = ValueText(e)
         /\ e.kind = "remark"  => Rendered(e) = Pad(e) \o <<Hash>> \o e.value
BY DEF Rendered, Pad, After, NameText, ValueText

LEMMA MarksApart ==
  /\ Blank # Opening /\ Blank # Closing /\ Blank # Equals /\ Blank # Hash /\ Blank # Backslash
  /\ Opening # Closing /\ Opening # Equals /\ Opening # Hash /\ Opening # Backslash
  /\ Closing # Equals /\ Closing # Hash /\ Closing # Backslash
  /\ Equals # Hash /\ Equals # Backslash /\ Hash # Backslash
BY Zenon DEF Blank, Opening, Closing, Equals, Hash, Backslash

LEMMA Apart ==
  ASSUME NEW c \in Letters
  PROVE  c \notin Marks /\ c # Blank /\ c # Opening /\ c # Closing /\ c # Equals /\ c # Hash
         /\ c # Backslash
BY LettersAssumption DEF Marks

(* The first and the last of a set of places are the ones that are.        *)
LEMMA EndsAre ==
  ASSUME NEW S \in SUBSET Int, NEW x \in S
  PROVE  /\ (\A j \in S : x <= j) => Least(S) = x
         /\ (\A j \in S : x >= j) => Most(S) = x
<1>1. ASSUME \A j \in S : x <= j PROVE Least(S) = x
  <2>1. Least(S) \in S /\ \A j \in S : Least(S) <= j
    BY <1>1 DEF Least
  <2>2. Least(S) \in Int /\ x \in Int /\ Least(S) <= x /\ x <= Least(S)
    BY <2>1, <1>1
  <2> QED BY <2>2
<1>2. ASSUME \A j \in S : x >= j PROVE Most(S) = x
  <2>1. Most(S) \in S /\ \A j \in S : Most(S) >= j
    BY <1>2 DEF Most
  <2>2. Most(S) \in Int /\ x \in Int /\ Most(S) >= x /\ x >= Most(S)
    BY <2>1, <1>2
  <2> QED BY <2>2
<1> QED BY <1>1, <1>2

(* A text of three pieces, place by place.                                 *)
LEMMA Pieces ==
  ASSUME NEW S, NEW a \in Seq(S), NEW b \in Seq(S), NEW c \in Seq(S), NEW s, s = a \o b \o c
  PROVE  /\ s \in Seq(S) /\ Len(s) = Len(a) + Len(b) + Len(c)
         /\ \A i \in 1 .. Len(a) : s[i] = a[i]
         /\ \A i \in 1 .. Len(b) : s[Len(a) + i] = b[i]
         /\ \A i \in 1 .. Len(c) : s[Len(a) + Len(b) + i] = c[i]
         /\ SubSeq(s, 1, Len(a)) = a
         /\ SubSeq(s, Len(a) + 1, Len(a) + Len(b)) = b
         /\ SubSeq(s, Len(a) + Len(b) + 1, Len(s)) = c
<1> DEFINE t == a \o b
<1>1. /\ t \in Seq(S) /\ Len(t) = Len(a) + Len(b)
      /\ \A i \in 1 .. Len(a) + Len(b) : t[i] = IF i <= Len(a) THEN a[i] ELSE b[i - Len(a)]
  BY ConcatProperties
<1> HIDE DEF t
<1>2. /\ s \in Seq(S) /\ Len(s) = Len(t) + Len(c)
      /\ \A i \in 1 .. Len(t) + Len(c) : s[i] = IF i <= Len(t) THEN t[i] ELSE c[i - Len(t)]
  <2>1. t \in Seq(S)
    BY <1>1
  <2>2. s = t \o c
    BY DEF t
  <2> QED BY <2>1, <2>2, ConcatProperties
<1>3. Len(a) \in Nat /\ Len(b) \in Nat /\ Len(c) \in Nat
  OBVIOUS
<1>4. /\ \A i \in 1 .. Len(a) : s[i] = a[i]
      /\ \A i \in 1 .. Len(b) : s[Len(a) + i] = b[i]
      /\ \A i \in 1 .. Len(c) : s[Len(a) + Len(b) + i] = c[i]
  <2> DEFINE la == Len(a)
             lb == Len(b)
             lc == Len(c)
  <2>1. la \in Nat /\ lb \in Nat /\ lc \in Nat
    BY <1>3
  <2>2. \A i \in 1 .. la + lb : t[i] = IF i <= la THEN a[i] ELSE b[i - la]
    BY <1>1
  <2>3. \A i \in 1 .. la + lb + lc : s[i] = IF i <= la + lb THEN t[i] ELSE c[i - (la + lb)]
    BY <1>1, <1>2
  <2> HIDE DEF la, lb, lc
  <2>4. \A i \in 1 .. la : s[i] = a[i]
    <3>1. ASSUME NEW i \in 1 .. la PROVE s[i] = a[i]
      <4>1. i \in 1 .. la + lb /\ i \in 1 .. la + lb + lc /\ i <= la /\ i <= la + lb
        BY <2>1
      <4> QED BY <4>1, <2>2, <2>3
    <3> QED BY <3>1
  <2>5. \A i \in 1 .. lb : s[la + i] = b[i]
    <3>1. ASSUME NEW i \in 1 .. lb PROVE s[la + i] = b[i]
      <4>1. la + i \in 1 .. la + lb /\ la + i \in 1 .. la + lb + lc /\ ~(la + i <= la)
            /\ (la + i) - la = i /\ la + i <= la + lb
        BY <2>1
      <4> QED BY <4>1, <2>2, <2>3
    <3> QED BY <3>1
  <2>6. \A i \in 1 .. lc : s[la + lb + i] = c[i]
    <3>1. ASSUME NEW i \in 1 .. lc PROVE s[la + lb + i] = c[i]
      <4>1. la + lb + i \in 1 .. la + lb + lc /\ ~(la + lb + i <= la + lb)
            /\ (la + lb + i) - (la + lb) = i
        BY <2>1
      <4> QED BY <4>1, <2>3
    <3> QED BY <3>1
  <2> QED BY <2>4, <2>5, <2>6 DEF la, lb, lc
<1>5. \A i \in 1 .. Len(s) : s[i] \in S
  BY <1>2
<1>6. SubSeq(s, 1, Len(a)) = a
  <2> DEFINE q == SubSeq(s, 1, Len(a))
  <2>1. q \in Seq(S) /\ Len(q) = Len(a) /\ \A i \in 1 .. Len(a) : q[i] = s[i]
    BY <1>1, <1>2, <1>3, <1>5, SubSeqProperties
  <2> HIDE DEF q
  <2>2. q = a
    BY <2>1, <1>4, SeqEqual
  <2> QED BY <2>2 DEF q
<1>7. SubSeq(s, Len(a) + 1, Len(a) + Len(b)) = b
  <2> DEFINE q == SubSeq(s, Len(a) + 1, Len(a) + Len(b))
  <2>1. q \in Seq(S) /\ Len(q) = Len(b) /\ \A i \in 1 .. Len(b) : q[i] = s[Len(a) + i]
    BY <1>1, <1>2, <1>3, <1>5, SubSeqProperties
  <2> HIDE DEF q
  <2>2. q = b
    BY <2>1, <1>4, SeqEqual
  <2> QED BY <2>2 DEF q
<1>8. SubSeq(s, Len(a) + Len(b) + 1, Len(s)) = c
  <2> DEFINE q == SubSeq(s, Len(a) + Len(b) + 1, Len(s))
  <2>1. q \in Seq(S) /\ Len(q) = Len(c) /\ \A i \in 1 .. Len(c) : q[i] = s[Len(a) + Len(b) + i]
    BY <1>1, <1>2, <1>3, <1>5, SubSeqProperties
  <2> HIDE DEF q
  <2>2. q = c
    BY <2>1, <1>4, SeqEqual
  <2> QED BY <2>2 DEF q
<1> QED BY <1>1, <1>2, <1>4, <1>6, <1>7, <1>8

(* The characters of a line, piece by piece.                               *)
LEMMA Short ==
  ASSUME NEW S, NEW c \in S, NEW d \in S
  PROVE  /\ <<c>> \in Seq(S) /\ Len(<<c>>) = 1 /\ <<c>>[1] = c
         /\ <<c, d>> \in Seq(S) /\ Len(<<c, d>>) = 2 /\ <<c, d>>[1] = c /\ <<c, d>>[2] = d
         /\ <<>> \in Seq(S) /\ Len(<<>>) = 0
OBVIOUS

LEMMA Joins ==
  /\ isjoint(<<Blank, Backslash>>)
  /\ ~isjoint(<<Blank>>)
  /\ ~isjoint(<<>>)
<1>1. isjoint(<<Blank, Backslash>>)
  <2> DEFINE s == <<Blank, Backslash>>
  <2>1. Len(s) = 2 /\ s[1] = Blank /\ s[2] = Backslash /\ s # <<>>
    OBVIOUS
  <2> HIDE DEF s
  <2>6. \A i \in 1 .. Len(s) : i = 1 \/ i = 2
    BY <2>1
  <2>7. 2 \in 1 .. Len(s) /\ s[1] # Backslash
    BY <2>1, MarksApart
  <2>2. Where(s, Backslash) = {2}
    BY <2>1, <2>6, <2>7, Zenon DEF Where
  <2>3. Cardinality({2}) = 1
    BY FS_Singleton
  <2>4. \A i \in 1 .. Len(s) : s[i] \in Blanks \cup {Backslash}
    BY <2>1, <2>6, Zenon DEF Blanks
  <2>5. isjoint(s)
    BY <2>1, <2>2, <2>3, <2>4 DEF isjoint, Blanks
  <2> QED BY <2>5 DEF s
<1>2. ~isjoint(<<Blank>>)
  <2> DEFINE s == <<Blank>>
  <2>1. Len(s) = 1 /\ s[1] = Blank
    OBVIOUS
  <2> HIDE DEF s
  <2>5. \A i \in 1 .. Len(s) : i = 1
    BY <2>1
  <2>6. s[1] # Backslash
    BY <2>1, MarksApart
  <2>2. Where(s, Backslash) = {}
    BY <2>5, <2>6, Zenon DEF Where
  <2>3. Cardinality({}) = 0
    BY FS_EmptySet
  <2>4. ~isjoint(s)
    BY <2>2, <2>3 DEF isjoint
  <2> QED BY <2>4 DEF s
<1>3. ~isjoint(<<>>)
  BY DEF isjoint
<1> QED BY <1>1, <1>2, <1>3

LEMMA PadText ==
  ASSUME NEW e \in Entries
  PROVE  /\ Pad(e) \in Seq({Blank}) /\ Len(Pad(e)) \in {0, 1}
         /\ After(e) \in Seq({Blank, Backslash}) /\ Len(After(e)) \in 0 .. 2
         /\ Len(After(e)) > 0 => After(e)[1] = Blank
<1>1. Pad(e) = <<Blank>> \/ Pad(e) = <<>>
  BY DEF Pad
<1>2. After(e) = <<Blank, Backslash>> \/ After(e) = <<Blank>> \/ After(e) = <<>>
  BY <1>1 DEF After
<1>3. Pad(e) \in Seq({Blank}) /\ Len(Pad(e)) \in {0, 1}
  <2>1. Blank \in {Blank}
    OBVIOUS
  <2>2. <<Blank>> \in Seq({Blank}) /\ Len(<<Blank>>) = 1 /\ <<>> \in Seq({Blank}) /\ Len(<<>>) = 0
    BY <2>1, Short
  <2> QED BY <1>1, <2>2, Zenon
<1>4. CASE After(e) = <<Blank, Backslash>>
  <2> DEFINE s == <<Blank, Backslash>>
             S == {Blank, Backslash}
  <2>1. Blank \in S /\ Backslash \in S
    OBVIOUS
  <2>2. s \in Seq(S) /\ Len(s) = 2 /\ s[1] = Blank
    BY <2>1, Short
  <2>3. After(e) = s
    BY <1>4
  <2> HIDE DEF s
  <2>4. After(e) \in Seq(S) /\ Len(After(e)) \in 0 .. 2 /\ After(e)[1] = Blank
    BY <2>2, <2>3
  <2> QED BY <1>3, <2>4
<1>5. CASE After(e) = <<Blank>>
  <2> DEFINE s == <<Blank>>
             S == {Blank, Backslash}
  <2>1. Blank \in S
    OBVIOUS
  <2>2. s \in Seq(S) /\ Len(s) = 1 /\ s[1] = Blank
    BY <2>1, Short
  <2>3. After(e) = s
    BY <1>5
  <2> HIDE DEF s
  <2>4. After(e) \in Seq(S) /\ Len(After(e)) \in 0 .. 2 /\ After(e)[1] = Blank
    BY <2>2, <2>3
  <2> QED BY <1>3, <2>4
<1>6. CASE After(e) = <<>>
  <2>1. After(e) \in Seq({Blank, Backslash}) /\ Len(After(e)) = 0
    BY <1>6
  <2>2. Len(After(e)) \in 0 .. 2 /\ ~(Len(After(e)) > 0)
    BY <2>1
  <2> QED BY <1>3, <2>1, <2>2
<1> QED BY <1>2, <1>4, <1>5, <1>6

LEMMA AfterJoins ==
  ASSUME NEW e \in Entries
  PROVE  isjoint(After(e)) = e.joint
<1>1. e.joint = TRUE \/ e.joint = FALSE
  BY EntriesAssumption
<1>2. \A s : isjoint(s) \in BOOLEAN
  BY DEF isjoint
<1>3. CASE e.joint = TRUE
  <2>1. After(e) = <<Blank, Backslash>>
    BY <1>3 DEF After
  <2> QED BY <1>2, <1>3, <2>1, Joins
<1>4. CASE e.joint = FALSE
  <2>1. After(e) = <<Blank>> \/ After(e) = <<>>
    BY <1>4 DEF After, Pad
  <2> QED BY <1>2, <1>4, <2>1, Joins
<1> QED BY <1>1, <1>3, <1>4

LEMMA Wider ==
  ASSUME NEW S, NEW T, S \subseteq T, NEW s \in Seq(S)
  PROVE  s \in Seq(T)
OBVIOUS

LEMMA PlainText ==
  ASSUME NEW e \in Entries, e.kind # "remark"
  PROVE  /\ e.name \in Words /\ e.value \in Words
         /\ NameText(e) \in Seq(Letters \cup {Blank})
         /\ ValueText(e) \in Seq(Letters \cup {Blank, Backslash})
         /\ NameText(e) \in LineTexts /\ ValueText(e) \in LineTexts
<1> DEFINE N == Letters \cup {Blank}
           V == Letters \cup {Blank, Backslash}
<1>1. e.name \in Words /\ e.value \in Words
  BY WordsAssumption DEF Words
<1>2. N \subseteq Chars /\ V \subseteq Chars /\ Letters \subseteq N /\ Letters \subseteq V
      /\ {Blank} \subseteq N /\ {Blank} \subseteq V /\ {Blank, Backslash} \subseteq V
  BY DEF Chars, Marks
<1>3. Pad(e) \in Seq(N) /\ Pad(e) \in Seq(V) /\ After(e) \in Seq(V)
      /\ e.name \in Seq(N) /\ e.value \in Seq(V)
  <2> HIDE DEF N, V
  <2> QED BY <1>1, <1>2, PadText, Wider DEF Words
<1> HIDE DEF N, V
<1>4. NameText(e) \in Seq(N) /\ ValueText(e) \in Seq(V)
  BY <1>3, Pieces DEF NameText, ValueText
<1>5. NameText(e) \in LineTexts /\ ValueText(e) \in LineTexts
  BY <1>2, <1>4, Wider DEF LineTexts
<1> QED BY <1>1, <1>4, <1>5 DEF N, V

LEMMA FirstPlace ==
  ASSUME NEW s \in LineTexts, Graph(s) # {}
  PROVE  /\ Least(Graph(s)) \in 1 .. Len(s) /\ s[Least(Graph(s))] # Blank
         /\ \A n \in Graph(s) : Least(Graph(s)) <= n
<1>1. Graph(s) \in SUBSET (1 .. Len(s)) /\ Len(s) \in Nat
  BY DEF Graph, LineTexts
<1>2. Least(Graph(s)) \in Graph(s) /\ \A n \in Graph(s) : Least(Graph(s)) <= n
  BY <1>1, LeastPlace
<1> QED BY <1>2 DEF Graph, Blanks

(* A line with no sign of equality names no key, one whose characters are  *)
(* no marks of a remark or a section is neither.                           *)
LEMMA NoKey ==
  ASSUME NEW s \in LineTexts, \A i \in 1 .. Len(s) : s[i] # Equals
  PROVE  getkeyname(s) = <<>>
<1>1. Where(s, Equals) = {}
  BY DEF Where
<1> QED BY <1>1 DEF getkeyname

LEMMA NoMark ==
  ASSUME NEW s \in LineTexts, Graph(s) # {},
         s[Least(Graph(s))] # Hash, s[Least(Graph(s))] # Opening
  PROVE  ~isremark(s) /\ getsection(s) = <<>>
BY DEF isremark, getsection

LEMMA NameFound ==
  ASSUME NEW e \in Entries, e.kind # "remark"
  PROVE  LET t == NameText(e)
             g == Graph(t)
         IN /\ e.name = <<>> => g = {}
            /\ e.name # <<>> =>
                 /\ g # {} /\ \A i \in g : t[i] \in Letters
                 /\ \A i \in Least(g) .. Most(g) : t[i] \notin Blanks
                 /\ SubSeq(t, Least(g), Most(g)) = e.name
<1> DEFINE t == NameText(e)
           g == Graph(t)
           p == Len(Pad(e))
           m == Len(e.name)
<1>1. e.name \in Words /\ Pad(e) \in Seq({Blank}) /\ p \in {0, 1} /\ m \in Nat
  BY PlainText, PadText DEF Words
<1>2. /\ Len(t) = p + m + p
      /\ \A i \in 1 .. p : t[i] = Blank
      /\ \A i \in 1 .. m : t[p + i] = e.name[i]
      /\ \A i \in 1 .. p : t[p + m + i] = Blank
      /\ SubSeq(t, p + 1, p + m) = e.name
  <2> DEFINE S == Letters \cup {Blank}
  <2>1. Pad(e) \in Seq(S) /\ e.name \in Seq(S)
    BY <1>1, Wider DEF Words
  <2>2. \A i \in 1 .. p : Pad(e)[i] = Blank
    BY <1>1
  <2> HIDE DEF S
  <2>3. /\ Len(t) = p + m + p
        /\ \A i \in 1 .. p : t[i] = Pad(e)[i]
        /\ \A i \in 1 .. m : t[p + i] = e.name[i]
        /\ \A i \in 1 .. p : t[p + m + i] = Pad(e)[i]
        /\ SubSeq(t, p + 1, p + m) = e.name
    <3> DEFINE a == Pad(e)
               b == e.name
               c == Pad(e)
    <3>1. a \in Seq(S) /\ b \in Seq(S) /\ c \in Seq(S)
      BY <2>1
    <3>0. t = a \o b \o c
      BY DEF NameText
    <3> HIDE DEF t, a, b, c
    <3>2. Len(t) = Len(a) + Len(b) + Len(c)
      BY <3>0, <3>1, Pieces
    <3>3. \A i \in 1 .. Len(a) : t[i] = a[i]
      BY <3>0, <3>1, Pieces
    <3>4. \A i \in 1 .. Len(b) : t[Len(a) + i] = b[i]
      BY <3>0, <3>1, Pieces
    <3>5. \A i \in 1 .. Len(c) : t[Len(a) + Len(b) + i] = c[i]
      BY <3>0, <3>1, Pieces
    <3>6. SubSeq(t, Len(a) + 1, Len(a) + Len(b)) = b
      BY <3>0, <3>1, Pieces
    <3>7. SubSeq(t, Len(a) + Len(b) + 1, Len(t)) = c
      BY <3>0, <3>1, Pieces
    <3> QED BY <3>2, <3>3, <3>4, <3>5, <3>6, <3>7 DEF a, b, c
  <2> HIDE DEF t, p, m
  <2> QED BY <2>2, <2>3
<1> HIDE DEF t, p, m
<1>3. \A i \in 1 .. m : t[p + i] \in Letters /\ t[p + i] # Blank
  <2>1. \A i \in 1 .. m : e.name[i] \in Letters
    BY <1>1 DEF m, Words
  <2>2. \A i \in 1 .. m : t[p + i] = e.name[i]
    BY <1>2
  <2> QED BY <2>1, <2>2, Apart
<1>4. \A i \in 1 .. Len(t) : i \in 1 .. p \/ i - p \in 1 .. m \/ i - (p + m) \in 1 .. p
  BY <1>1, <1>2
<1>5. g = p + 1 .. p + m
  <2>1. ASSUME NEW i \in g PROVE i \in p + 1 .. p + m
    <3>1. i \in 1 .. Len(t) /\ t[i] # Blank
      BY DEF Graph, Blanks
    <3>2. i - (p + m) \in 1 .. p => t[p + m + (i - (p + m))] = Blank
      BY <1>2
    <3>3. p + m + (i - (p + m)) = i
      BY <1>1, <3>1, <1>2
    <3>4. i - p \in 1 .. m
      BY <1>2, <1>4, <3>1, <3>2, <3>3
    <3> QED BY <1>1, <3>1, <3>4
  <2>2. ASSUME NEW i \in p + 1 .. p + m PROVE i \in g
    <3>1. i - p \in 1 .. m /\ i \in 1 .. Len(t) /\ p + (i - p) = i
      BY <1>1, <1>2
    <3>2. t[i] # Blank
      BY <3>1, <1>3
    <3> QED BY <3>1, <3>2 DEF Graph, Blanks
  <2> QED BY <2>1, <2>2
<1> HIDE DEF g
<1>6. e.name = <<>> => g = {}
  <2>1. e.name = <<>> => m = 0
    BY DEF m
  <2> QED BY <1>1, <1>5, <2>1
<1>7. ASSUME e.name # <<>>
      PROVE  /\ g # {} /\ \A i \in g : t[i] \in Letters
             /\ \A i \in Least(g) .. Most(g) : t[i] \notin Blanks
             /\ SubSeq(t, Least(g), Most(g)) = e.name
  <2>1. m > 0
    BY <1>1, <1>7, EmptySeq DEF m, Words
  <2>2. p + 1 \in g /\ p + m \in g /\ g \in SUBSET Int
    BY <1>1, <1>5, <2>1
  <2>3. Least(g) = p + 1 /\ Most(g) = p + m
    <3>1. \A j \in g : p + 1 <= j /\ p + m >= j
      BY <1>1, <1>5
    <3> QED BY <2>2, <3>1, EndsAre
  <2>4. \A i \in g : t[i] \in Letters /\ t[i] # Blank
    <3>1. ASSUME NEW i \in g PROVE t[i] \in Letters /\ t[i] # Blank
      <4>1. i - p \in 1 .. m /\ p + (i - p) = i
        BY <1>1, <1>5
      <4> QED BY <4>1, <1>3
    <3> QED BY <3>1
  <2> QED BY <1>2, <1>5, <2>2, <2>3, <2>4 DEF Blanks
<1> QED BY <1>6, <1>7 DEF t, g

(* The word of a value's text is the value, whatever stands round it.      *)
LEMMA ValueFound ==
  ASSUME NEW e \in Entries, e.kind \in {"key", "part"}, NEW room \in Nat \ {0}
  PROVE  /\ e.value = <<>> => Cut(ValueText(e), room).text = <<>>
         /\ e.value # <<>> =>
              /\ Graph(ValueText(e)) # {}
              /\ Cut(ValueText(e), room).joint = e.joint
              /\ Len(e.value) < room => Cut(ValueText(e), room).text = e.value
<1> DEFINE t == ValueText(e)
           g == Graph(t)
           p == Len(Pad(e))
           m == Len(e.value)
           q == Len(After(e))
<1>1. /\ e.value \in Words /\ Pad(e) \in Seq({Blank}) /\ p \in {0, 1} /\ m \in Nat
      /\ After(e) \in Seq({Blank, Backslash}) /\ q \in 0 .. 2 /\ (q > 0 => After(e)[1] = Blank)
  BY PlainText, PadText DEF Words
<1>2. /\ t \in LineTexts /\ Len(t) = p + m + q
      /\ \A i \in 1 .. p : t[i] = Blank
      /\ \A i \in 1 .. m : t[p + i] = e.value[i]
      /\ \A i \in 1 .. q : t[p + m + i] = After(e)[i]
      /\ SubSeq(t, p + 1, p + m) = e.value
      /\ SubSeq(t, p + m + 1, Len(t)) = After(e)
  <2> DEFINE S == Letters \cup {Blank, Backslash}
  <2>1. Pad(e) \in Seq(S) /\ e.value \in Seq(S) /\ After(e) \in Seq(S)
    BY <1>1, Wider DEF Words
  <2>2. \A i \in 1 .. p : Pad(e)[i] = Blank
    BY <1>1
  <2> HIDE DEF S
  <2>3. t \in LineTexts
    BY PlainText
  <2>4. /\ Len(t) = p + m + q
        /\ \A i \in 1 .. p : t[i] = Pad(e)[i]
        /\ \A i \in 1 .. m : t[p + i] = e.value[i]
        /\ \A i \in 1 .. q : t[p + m + i] = After(e)[i]
        /\ SubSeq(t, p + 1, p + m) = e.value
        /\ SubSeq(t, p + m + 1, Len(t)) = After(e)
    <3> DEFINE a == Pad(e)
               b == e.value
               c == After(e)
    <3>1. a \in Seq(S) /\ b \in Seq(S) /\ c \in Seq(S)
      BY <2>1
    <3>0. t = a \o b \o c
      BY DEF ValueText
    <3> HIDE DEF t, a, b, c
    <3>2. Len(t) = Len(a) + Len(b) + Len(c)
      BY <3>0, <3>1, Pieces
    <3>3. \A i \in 1 .. Len(a) : t[i] = a[i]
      BY <3>0, <3>1, Pieces
    <3>4. \A i \in 1 .. Len(b) : t[Len(a) + i] = b[i]
      BY <3>0, <3>1, Pieces
    <3>5. \A i \in 1 .. Len(c) : t[Len(a) + Len(b) + i] = c[i]
      BY <3>0, <3>1, Pieces
    <3>6. SubSeq(t, Len(a) + 1, Len(a) + Len(b)) = b
      BY <3>0, <3>1, Pieces
    <3>7. SubSeq(t, Len(a) + Len(b) + 1, Len(t)) = c
      BY <3>0, <3>1, Pieces
    <3> QED BY <3>2, <3>3, <3>4, <3>5, <3>6, <3>7 DEF a, b, c
  <2> HIDE DEF t, p, m, q
  <2> QED BY <2>2, <2>3, <2>4
<1> HIDE DEF t, p, m, q
<1>3. \A i \in 1 .. m : t[p + i] \in Letters /\ t[p + i] # Blank
  <2>1. \A i \in 1 .. m : e.value[i] \in Letters
    BY <1>1 DEF m, Words
  <2>2. \A i \in 1 .. m : t[p + i] = e.value[i]
    BY <1>2
  <2> QED BY <2>1, <2>2, Apart
<1>4. CASE e.value = <<>>
  <2>1. m = 0 /\ ~e.joint
    BY <1>4, WordsAssumption DEF m
  <2>2. After(e) = Pad(e)
    BY <2>1 DEF After
  <2>3. \A i \in 1 .. Len(t) : t[i] = Blank
    <3>1. ASSUME NEW i \in 1 .. Len(t) PROVE t[i] = Blank
      <4>1. i \in 1 .. p \/ i - p \in 1 .. q
        BY <1>1, <1>2, <2>1
      <4>2. q = p /\ \A k \in 1 .. q : After(e)[k] = Blank
        BY <1>1, <2>2 DEF p, q
      <4>3. i - p \in 1 .. q => t[p + m + (i - p)] = Blank
        BY <1>2, <4>2
      <4>4. p + m + (i - p) = i
        BY <1>1, <2>1
      <4> QED BY <1>2, <4>1, <4>3, <4>4
    <3> QED BY <3>1
  <2>4. Graph(t) = {}
    BY <2>3 DEF Graph, Blanks
  <2> QED BY <1>4, <2>4 DEF Cut, t
<1>5. CASE e.value # <<>>
  <2>1. m > 0
    BY <1>1, <1>5, EmptySeq DEF m, Words
  <2>2. g \in SUBSET Int /\ p + 1 \in g
    <3>1. p + 1 \in 1 .. Len(t) /\ 1 \in 1 .. m
      BY <1>1, <1>2, <2>1
    <3> QED BY <3>1, <1>3 DEF Graph, Blanks
  <2>3. Least(g) = p + 1
    <3>1. ASSUME NEW j \in g PROVE p + 1 <= j
      <4>1. j \in 1 .. Len(t) /\ t[j] # Blank
        BY DEF Graph, Blanks
      <4> QED BY <4>1, <1>1, <1>2
    <3> QED BY <3>1, <2>2, EndsAre
  <2> DEFINE i    == Least(g)
             stop == {j \in i .. Len(t) : t[j] \in Blanks}
             j    == IF stop = {} THEN Len(t) + 1 ELSE Least(stop)
  <2>4. j = p + m + 1
    <3>1. \A k \in stop : k >= p + m + 1
      <4>1. ASSUME NEW k \in stop, k < p + m + 1 PROVE FALSE
        <5>1. k \in p + 1 .. Len(t) /\ t[k] = Blank
          BY <2>3 DEF Blanks
        <5>2. k - p \in 1 .. m /\ p + (k - p) = k
          BY <5>1, <4>1, <1>1, <1>2
        <5> QED BY <5>1, <5>2, <1>3
      <4>2. \A k \in stop : k \in Int
        BY <1>1, <1>2, <2>3
      <4> QED BY <4>1, <4>2, <1>1
    <3>2. CASE q = 0
      <4>1. \A k \in stop : k <= p + m
        BY <3>2, <1>1, <1>2, <2>3
      <4>2. \A k \in stop : k \in Int
        BY <1>1, <1>2, <2>3
      <4>3. stop = {}
        <5> HIDE DEF stop
        <5> QED BY <4>1, <4>2, <3>1, <1>1
      <4> QED BY <4>3, <3>2, <1>1, <1>2
    <3>3. CASE q > 0
      <4>1. t[p + m + 1] = Blank
        <5>1. 1 \in 1 .. q
          BY <3>3, <1>1
        <5> QED BY <5>1, <3>3, <1>1, <1>2
      <4>2. p + m + 1 \in stop
        BY <3>3, <4>1, <1>1, <1>2, <2>1, <2>3 DEF Blanks
      <4>3. stop \in SUBSET Int
        BY <1>1, <1>2, <2>3
      <4>4. \A k \in stop : p + m + 1 <= k
        BY <3>1, <4>3, <1>1
      <4>5. Least(stop) = p + m + 1
        <5> HIDE DEF stop
        <5> QED BY <4>2, <4>3, <4>4, EndsAre
      <4>6. stop # {}
        BY <4>2
      <4> HIDE DEF stop
      <4> QED BY <4>5, <4>6
    <3> QED BY <3>2, <3>3, <1>1
  <2>5. Word(t) = [text |-> SubSeq(t, i, j - 1), joint |-> isjoint(From(t, j))]
    BY DEF Word
  <2> HIDE DEF i, j
  <2>6. i = p + 1 /\ j - 1 = p + m
    BY <2>3, <2>4, <1>1 DEF i
  <2>7. Word(t) = [text |-> e.value, joint |-> e.joint]
    <3>1. SubSeq(t, i, j - 1) = e.value /\ From(t, j) = After(e)
      BY <2>4, <2>6, <1>2 DEF From
    <3> QED BY <2>5, <3>1, AfterJoins
  <2>8. Graph(t) # {}
    BY <2>2
  <2>9. Cut(t, room) = IF room > m THEN Word(t) ELSE [Word(t) EXCEPT !.text = SubSeq(@, 1, room - 1)]
    BY <2>7, <2>8 DEF Cut, m
  <2>10. Cut(t, room).joint = e.joint
    BY <2>7, <2>9
  <2>11. m < room => Cut(t, room).text = e.value
    BY <2>7, <2>9, <1>1
  <2> QED BY <1>5, <2>8, <2>10, <2>11 DEF t, m
<1> QED BY <1>4, <1>5

(* A key's line names the key, and its value's text stands behind it.      *)
LEMMA KeyLine ==
  ASSUME NEW e \in Entries, e.kind = "key"
  PROVE  LET s == Rendered(e) IN
         /\ ~isremark(s) /\ getsection(s) = <<>>
         /\ getkeyname(s) = e.name
         /\ From(s, Least(Where(s, Equals)) + 1) = ValueText(e)
<1> DEFINE s == Rendered(e)
           A == NameText(e)
           B == ValueText(e)
           n == Len(A)
           N == Letters \cup {Blank}
           V == Letters \cup {Blank, Backslash}
<1>1. e.kind # "remark"
  OBVIOUS
<1>2. A \in LineTexts /\ B \in LineTexts /\ A \in Seq(N) /\ B \in Seq(V)
  BY <1>1, PlainText
<1>3. s = A \o <<Equals>> \o B
  BY Written
<1>4. <<Equals>> \in LineTexts /\ Len(<<Equals>>) = 1 /\ <<Equals>>[1] = Equals
  <2>1. Equals \in Chars
    BY DEF Chars, Marks
  <2> QED BY <2>1, Short DEF LineTexts
<1> HIDE DEF s, A, B
<1>5. /\ s \in LineTexts /\ n \in Nat /\ Len(B) \in Nat /\ Len(s) = n + 1 + Len(B)
      /\ \A i \in 1 .. n : s[i] = A[i]
      /\ s[n + 1] = Equals
      /\ \A i \in 1 .. Len(B) : s[n + 1 + i] = B[i]
      /\ SubSeq(s, 1, n) = A
      /\ SubSeq(s, n + 2, Len(s)) = B
  <2> DEFINE E == <<Equals>>
  <2>1. E \in LineTexts /\ Len(E) = 1 /\ E[1] = Equals /\ s = A \o E \o B
    BY <1>3, <1>4
  <2> HIDE DEF E
  <2>2. A \in Seq(Chars) /\ B \in Seq(Chars) /\ E \in Seq(Chars)
    BY <1>2, <2>1 DEF LineTexts
  <2>3. /\ s \in Seq(Chars) /\ Len(s) = Len(A) + Len(E) + Len(B)
        /\ \A i \in 1 .. Len(A) : s[i] = A[i]
        /\ \A i \in 1 .. Len(E) : s[Len(A) + i] = E[i]
        /\ \A i \in 1 .. Len(B) : s[Len(A) + Len(E) + i] = B[i]
        /\ SubSeq(s, 1, Len(A)) = A
        /\ SubSeq(s, Len(A) + Len(E) + 1, Len(s)) = B
    <3>1. s = A \o E \o B
      BY <2>1
    <3> QED BY <2>2, <3>1, Pieces
  <2>4. n \in Nat /\ Len(B) \in Nat /\ n + 1 + 1 = n + 2
    BY <2>2
  <2>5. s[n + 1] = Equals
    <3>1. 1 \in 1 .. Len(E)
      BY <2>1
    <3> QED BY <2>1, <2>3, <3>1
  <2> QED BY <2>1, <2>3, <2>4, <2>5 DEF LineTexts
<1> HIDE DEF n
<1>6. n + 1 \in 1 .. Len(s) /\ n = Len(A)
  BY <1>5 DEF n
<1>7. \A i \in 1 .. n : s[i] \in N
  <2> HIDE DEF N
  <2> QED BY <1>2, <1>5, <1>6
<1>8. \A c \in N : c # Equals /\ c # Hash /\ c # Opening
  BY Apart, MarksApart
<1>9. \A c \in V : c # Equals
  BY Apart, MarksApart
<1> HIDE DEF N, V
<1>10. Least(Where(s, Equals)) = n + 1
  <2>1. ASSUME NEW i \in Where(s, Equals) PROVE n + 1 <= i
    <3>1. i \in 1 .. Len(s) /\ s[i] = Equals
      BY DEF Where
    <3>2. ~(i \in 1 .. n)
      BY <3>1, <1>7, <1>8
    <3> QED BY <3>1, <3>2, <1>5
  <2>2. n + 1 \in Where(s, Equals) /\ Where(s, Equals) \in SUBSET Int
    BY <1>5, <1>6 DEF Where
  <2> QED BY <2>1, <2>2, EndsAre
<1>11. n + 1 \in Graph(s)
  BY <1>5, <1>6, MarksApart DEF Graph, Blanks
<1>12. Least(Graph(s)) \in 1 .. n + 1
  BY <1>5, <1>11, FirstPlace
<1>13. s[Least(Graph(s))] # Hash /\ s[Least(Graph(s))] # Opening
  <2>1. Least(Graph(s)) \in 1 .. n \/ Least(Graph(s)) = n + 1
    BY <1>5, <1>12
  <2> QED BY <2>1, <1>5, <1>7, <1>8, MarksApart
<1>14. ~isremark(s) /\ getsection(s) = <<>>
  BY <1>5, <1>11, <1>13, NoMark
<1>15. getkeyname(s) = e.name
  <2>1. SubSeq(s, 1, Least(Where(s, Equals)) - 1) = A
    BY <1>5, <1>10
  <2>2. Graph(s) # {} /\ Where(s, Equals) # {}
    BY <1>5, <1>6, <1>11 DEF Where
  <2> DEFINE g == Graph(A)
  <2>3. getkeyname(s) = IF g = {} \/ (\E i \in g : A[i] \notin Letters) THEN <<>>
                        ELSE IF \E i \in Least(g) .. Most(g) : A[i] \in Blanks THEN <<>>
                        ELSE SubSeq(A, Least(g), Most(g))
    BY <2>1, <2>2 DEF getkeyname
  <2>4. /\ e.name = <<>> => g = {}
        /\ e.name # <<>> =>
             /\ g # {} /\ \A i \in g : A[i] \in Letters
             /\ \A i \in Least(g) .. Most(g) : A[i] \notin Blanks
             /\ SubSeq(A, Least(g), Most(g)) = e.name
    BY <1>1, NameFound DEF A
  <2> HIDE DEF g
  <2>5. CASE e.name = <<>>
    BY <2>3, <2>4, <2>5
  <2>6. CASE e.name # <<>>
    BY <2>3, <2>4, <2>6
  <2> QED BY <2>5, <2>6
<1>16. From(s, Least(Where(s, Equals)) + 1) = B
  <2>1. n + 1 + 1 = n + 2
    BY <1>5
  <2> QED BY <1>5, <1>10, <2>1 DEF From
<1> QED BY <1>14, <1>15, <1>16 DEF s, B

(* The line of a part of a value is no remark, no section and no key.      *)
LEMMA PartLine ==
  ASSUME NEW e \in Entries, e.kind = "part"
  PROVE  LET s == Rendered(e) IN
         ~isremark(s) /\ getsection(s) = <<>> /\ getkeyname(s) = <<>>
<1> DEFINE s == Rendered(e)
           V == Letters \cup {Blank, Backslash}
<1>1. s = ValueText(e) /\ e.kind # "remark" /\ e.kind \in {"key", "part"}
  BY Written
<1>2. s \in LineTexts /\ s \in Seq(V)
  BY <1>1, PlainText
<1>3. Graph(s) # {}
  <2>1. e.value # <<>>
    BY WordsAssumption
  <2>2. 1 \in Nat \ {0}
    OBVIOUS
  <2> QED BY <1>1, <2>1, <2>2, ValueFound
<1>4. \A c \in V : c # Equals /\ c # Hash /\ c # Opening
  BY Apart, MarksApart
<1> HIDE DEF s, V
<1>5. \A i \in 1 .. Len(s) : s[i] \in V
  BY <1>2
<1>6. getkeyname(s) = <<>>
  BY <1>2, <1>4, <1>5, NoKey
<1>7. s[Least(Graph(s))] \in V
  BY <1>2, <1>3, <1>5, FirstPlace
<1>8. ~isremark(s) /\ getsection(s) = <<>>
  BY <1>2, <1>3, <1>4, <1>7, NoMark
<1> QED BY <1>6, <1>8 DEF s

LEMMA RemarkLine ==
  ASSUME NEW e \in Entries, e.kind = "remark"
  PROVE  isremark(Rendered(e))
<1> DEFINE s == Rendered(e)
           a == Pad(e)
           b == <<Hash>>
           c == e.value
<1>1. s = a \o b \o c
  BY Written
<1>2. a \in Seq({Blank}) /\ b \in Seq(Chars) /\ Len(b) = 1 /\ b[1] = Hash /\ c \in Seq(Chars)
  <2>1. Hash \in Chars
    BY DEF Chars, Marks
  <2> QED BY <2>1, Short, PadText, EntriesAssumption
<1>3. a \in Seq(Chars)
  <2>1. {Blank} \subseteq Chars
    BY DEF Chars, Marks
  <2> QED BY <1>2, <2>1, Wider
<1> HIDE DEF s, a, b, c
<1>4. /\ s \in LineTexts /\ Len(s) = Len(a) + Len(b) + Len(c)
      /\ \A i \in 1 .. Len(a) : s[i] = a[i]
      /\ \A i \in 1 .. Len(b) : s[Len(a) + i] = b[i]
  <2>1. a \in Seq(Chars) /\ b \in Seq(Chars) /\ c \in Seq(Chars)
    BY <1>2, <1>3
  <2> QED BY <1>1, <2>1, Pieces DEF LineTexts
<1>5. Len(a) \in Nat /\ Len(c) \in Nat
  BY <1>2
<1>6. s[Len(a) + 1] = Hash
  <2>1. 1 \in 1 .. Len(b)
    BY <1>2
  <2> QED BY <2>1, <1>2, <1>4
<1>7. Len(a) + 1 \in Graph(s)
  BY <1>2, <1>4, <1>5, <1>6, MarksApart DEF Graph, Blanks
<1>8. Least(Graph(s)) = Len(a) + 1
  <2>1. ASSUME NEW i \in Graph(s) PROVE Len(a) + 1 <= i
    <3>1. i \in 1 .. Len(s) /\ s[i] # Blank
      BY DEF Graph, Blanks
    <3>2. \A j \in 1 .. Len(a) : s[j] = Blank
      BY <1>2, <1>4
    <3>3. ~(i \in 1 .. Len(a))
      BY <3>1, <3>2
    <3> QED BY <3>1, <3>3, <1>5
  <2>2. Graph(s) \in SUBSET Int
    BY DEF Graph
  <2> QED BY <2>1, <2>2, <1>7, EndsAre
<1> QED BY <1>6, <1>8 DEF isremark, s

LEMMA SectionLine ==
  ASSUME NEW e \in Entries, e.kind = "section"
  PROVE  LET s == Rendered(e) IN
         ~isremark(s) /\ getsection(s) = e.name /\ getkeyname(s) = <<>>
<1> DEFINE s == Rendered(e)
           a == Pad(e)
           o == <<Opening>>
           n == e.name
           c == <<Closing>>
           t == a \o o \o n
           p == Len(a)
           m == Len(n)
           T == Letters \cup {Blank, Opening, Closing}
<1>1. s = t \o c \o a
  BY Written
<1>2. /\ a \in Seq({Blank}) /\ o \in Seq(T) /\ Len(o) = 1 /\ o[1] = Opening
      /\ n \in Words /\ c \in Seq(T) /\ Len(c) = 1 /\ c[1] = Closing
  <2>1. Opening \in T /\ Closing \in T
    OBVIOUS
  <2> HIDE DEF T
  <2>2. n \in Words
    BY PlainText
  <2> QED BY <2>1, <2>2, Short, PadText
<1>3. a \in Seq(T) /\ n \in Seq(T)
  <2>1. {Blank} \subseteq T /\ Letters \subseteq T
    OBVIOUS
  <2> HIDE DEF T
  <2> QED BY <1>2, <2>1, Wider DEF Words
<1>4. T \subseteq Chars /\ \A x \in T : x # Equals /\ x # Hash
  BY Apart, MarksApart DEF Chars, Marks
<1> HIDE DEF T, s, a, o, n, c
<1>5. /\ t \in Seq(T) /\ Len(t) = Len(a) + Len(o) + Len(n)
      /\ \A i \in 1 .. Len(a) : t[i] = a[i]
      /\ \A i \in 1 .. Len(o) : t[Len(a) + i] = o[i]
      /\ \A i \in 1 .. Len(n) : t[Len(a) + Len(o) + i] = n[i]
  <2>1. a \in Seq(T) /\ o \in Seq(T) /\ n \in Seq(T)
    BY <1>2, <1>3
  <2>2. t = a \o o \o n
    OBVIOUS
  <2> HIDE DEF t
  <2> QED BY <2>1, <2>2, Pieces
<1> HIDE DEF t
<1>6. /\ s \in Seq(T) /\ Len(s) = Len(t) + Len(c) + Len(a)
      /\ \A i \in 1 .. Len(t) : s[i] = t[i]
      /\ \A i \in 1 .. Len(c) : s[Len(t) + i] = c[i]
      /\ \A i \in 1 .. Len(a) : s[Len(t) + Len(c) + i] = a[i]
  <2>1. t \in Seq(T) /\ c \in Seq(T) /\ a \in Seq(T)
    BY <1>2, <1>3, <1>5
  <2> QED BY <1>1, <2>1, Pieces
<1>7. p \in Nat /\ m \in Nat /\ Len(t) = p + 1 + m /\ Len(s) = p + m + 2 + p
  BY <1>2, <1>5, <1>6 DEF Words
<1>8. /\ \A i \in 1 .. p : s[i] = Blank
      /\ s[p + 1] = Opening
      /\ \A i \in 1 .. m : s[p + 1 + i] = n[i]
      /\ s[p + m + 2] = Closing
      /\ \A i \in 1 .. p : s[p + m + 2 + i] = Blank
  <2>1. ASSUME NEW i \in 1 .. p PROVE s[i] = Blank
    <3>1. i \in 1 .. Len(t) /\ a[i] = Blank /\ i \in 1 .. Len(a)
      BY <1>2, <1>7
    <3> QED BY <3>1, <1>5, <1>6
  <2>2. s[p + 1] = Opening
    <3>1. p + 1 \in 1 .. Len(t) /\ 1 \in 1 .. Len(o)
      BY <1>2, <1>7
    <3> QED BY <3>1, <1>2, <1>5, <1>6
  <2>3. ASSUME NEW i \in 1 .. m PROVE s[p + 1 + i] = n[i]
    <3>1. p + 1 + i \in 1 .. Len(t) /\ i \in 1 .. Len(n)
      BY <1>7
    <3> QED BY <3>1, <1>2, <1>5, <1>6
  <2>4. s[p + m + 2] = Closing
    <3>1. 1 \in 1 .. Len(c) /\ Len(t) + 1 = p + m + 2
      BY <1>2, <1>7
    <3> QED BY <3>1, <1>2, <1>6
  <2>5. ASSUME NEW i \in 1 .. p PROVE s[p + m + 2 + i] = Blank
    <3>1. a[i] = Blank /\ i \in 1 .. Len(a) /\ Len(t) + Len(c) + i = p + m + 2 + i
      BY <1>2, <1>7
    <3> QED BY <3>1, <1>6
  <2> QED BY <2>1, <2>2, <2>3, <2>4, <2>5
<1> HIDE DEF p, m
<1>9. /\ p + 1 \in Graph(s) /\ p + m + 2 \in Graph(s) /\ Graph(s) \in SUBSET Int
      /\ \A i \in Graph(s) : p + 1 <= i /\ p + m + 2 >= i
  <2>1. p + 1 \in 1 .. Len(s) /\ p + m + 2 \in 1 .. Len(s)
    BY <1>7
  <2>2. p + 1 \in Graph(s) /\ p + m + 2 \in Graph(s)
    BY <2>1, <1>8, MarksApart DEF Graph, Blanks
  <2>3. ASSUME NEW i \in Graph(s) PROVE p + 1 <= i /\ p + m + 2 >= i
    <3>1. i \in 1 .. Len(s) /\ s[i] # Blank
      BY DEF Graph, Blanks
    <3>2. ~(i \in 1 .. p)
      BY <3>1, <1>8
    <3>3. ~(i - (p + m + 2) \in 1 .. p)
      <4>1. p + m + 2 + (i - (p + m + 2)) = i
        BY <3>1, <1>7
      <4> QED BY <3>1, <4>1, <1>8
    <3> QED BY <3>1, <3>2, <3>3, <1>7
  <2>4. Graph(s) \in SUBSET Int
    BY DEF Graph
  <2> QED BY <2>2, <2>3, <2>4
<1>10. Least(Graph(s)) = p + 1 /\ Most(Graph(s)) = p + m + 2
  BY <1>9, EndsAre
<1>11. SubSeq(s, p + 2, p + m + 1) = n
  <2> DEFINE q == SubSeq(s, p + 2, p + m + 1)
  <2>1. \A i \in p + 2 .. p + m + 1 : s[i] \in T
    BY <1>6, <1>7
  <2>2. /\ q \in Seq(T)
        /\ Len(q) = IF p + 2 <= p + m + 1 THEN p + m + 1 - (p + 2) + 1 ELSE 0
        /\ \A i \in 1 .. p + m + 1 - (p + 2) + 1 : q[i] = s[p + 2 + i - 1]
    BY <2>1, <1>7, SubSeqProperties
  <2> HIDE DEF q
  <2>3. Len(q) = m /\ \A i \in 1 .. m : q[i] = s[p + 1 + i]
    <3>1. p + m + 1 - (p + 2) + 1 = m /\ (p + 2 <= p + m + 1 <=> m > 0)
      BY <1>7
    <3>2. \A i \in 1 .. m : p + 2 + i - 1 = p + 1 + i
      BY <1>7
    <3> QED BY <2>2, <3>1, <3>2, <1>7
  <2>4. q = n
    BY <2>2, <2>3, <1>3, <1>8, SeqEqual DEF m
  <2> QED BY <2>4 DEF q
<1>12. getsection(s) = n
  <2>1. \A k \in 1 .. Len(n) : n[k] \in Letters
    BY <1>2 DEF Words
  <2>2. p + 1 + 1 = p + 2 /\ p + m + 2 - 1 = p + m + 1
    BY <1>7
  <2> DEFINE i == Least(Graph(s))
             j == Most(Graph(s))
             w == SubSeq(s, i + 1, j - 1)
  <2>3. s[i] = Opening /\ s[j] = Closing
    BY <1>8, <1>10
  <2>4. w = n
    <3>0. i = p + 1 /\ j = p + m + 2
      BY <1>10
    <3>1. i + 1 = p + 2 /\ j - 1 = p + m + 1
      BY <3>0, <1>7
    <3> HIDE DEF i, j
    <3> QED BY <3>1, <1>11
  <2>5. getsection(s) = IF s[i] = Opening /\ s[j] = Closing /\ \A k \in 1 .. Len(w) : w[k] \in Letters
                        THEN w ELSE <<>>
    BY <1>9 DEF getsection
  <2> HIDE DEF i, j, w
  <2> QED BY <2>1, <2>3, <2>4, <2>5
<1>13. s \in LineTexts
  BY <1>4, <1>6, Wider DEF LineTexts
<1>14. getkeyname(s) = <<>>
  BY <1>4, <1>6, <1>13, NoKey
<1>15. ~isremark(s)
  BY <1>8, <1>9, <1>10, MarksApart DEF isremark
<1> QED BY <1>12, <1>14, <1>15 DEF s, n

(* The tests of a line tell what was written, whatever names, values,      *)
(* blanks and backslashes it has (isremark, getsection, getkeyname).       *)
THEOREM LinesReadBack ==
  ASSUME NEW e \in Entries
  PROVE  LET s == Rendered(e) IN
         /\ isremark(s) <=> e.kind = "remark"
         /\ e.kind # "remark" =>
              /\ getsection(s) = IF e.kind = "section" THEN e.name ELSE <<>>
              /\ getkeyname(s) = IF e.kind = "key" THEN e.name ELSE <<>>
<1>1. CASE e.kind = "section"
  BY <1>1, SectionLine
<1>2. CASE e.kind = "key"
  BY <1>2, KeyLine
<1>3. CASE e.kind = "part"
  BY <1>3, PartLine
<1>4. CASE e.kind = "remark"
  BY <1>4, RemarkLine
<1> QED BY <1>1, <1>2, <1>3, <1>4, EntriesAssumption

-----------------------------------------------------------------------------
(* Joined is what its recursion says.  A set of places that has 0, and the *)
(* successor of each of its places up to n, has all of them: otherwise     *)
(* there were a first one that it has not.                                 *)
LEMMA AllPlaces ==
  ASSUME NEW n \in Nat, NEW S, 0 \in S, \A i \in 0 .. n - 1 : i \in S => i + 1 \in S
  PROVE  \A i \in 0 .. n : i \in S
<1> DEFINE R == {i \in 1 .. n : i \notin S}
<1>1. ASSUME R # {} PROVE FALSE
  <2>1. R \in SUBSET (1 .. n)
    OBVIOUS
  <2> HIDE DEF R
  <2>2. Least(R) \in R /\ \A j \in R : Least(R) <= j
    BY <1>1, <2>1, LeastPlace
  <2> DEFINE x == Least(R)
  <2>3. x \in 1 .. n /\ x \notin S
    BY <2>2 DEF R
  <2>4. x - 1 \notin R
    BY <2>2, <2>3
  <2>5. x - 1 \in S
    BY <2>3, <2>4 DEF R
  <2>6. x - 1 \in 0 .. n - 1 /\ (x - 1) + 1 = x
    BY <2>3
  <2> QED BY <2>3, <2>5, <2>6
<1> QED BY <1>1

Piece(es, S, i)  == IF i \in S THEN es[i].value ELSE <<>>
Recursion(f, es, S, n) == f = [i \in 0 .. n |-> IF i = 0 THEN <<>> ELSE f[i - 1] \o Piece(es, S, i)]

LEMMA JoinedExists ==
  ASSUME NEW es, NEW S, NEW n \in Nat
  PROVE  \E f : Recursion(f, es, S, n)
<1> DEFINE G == {k \in 0 .. n : \E f : Recursion(f, es, S, k)}
<1>1. 0 \in G
  <2> DEFINE f == [i \in 0 .. 0 |-> <<>>]
  <2>1. f = [i \in 0 .. 0 |-> IF i = 0 THEN <<>> ELSE f[i - 1] \o Piece(es, S, i)]
    <3>1. \A i \in 0 .. 0 : i = 0
      OBVIOUS
    <3> QED BY <3>1
  <2> HIDE DEF f
  <2>2. Recursion(f, es, S, 0)
    BY <2>1 DEF Recursion
  <2> QED BY <2>2
<1>2. ASSUME NEW k \in 0 .. n - 1, k \in G PROVE k + 1 \in G
  <2>1. PICK f : Recursion(f, es, S, k)
    BY <1>2
  <2> DEFINE g == [i \in 0 .. k + 1 |-> IF i <= k THEN f[i] ELSE f[k] \o Piece(es, S, k + 1)]
             h == [i \in 0 .. k + 1 |-> IF i = 0 THEN <<>> ELSE g[i - 1] \o Piece(es, S, i)]
  <2>2. ASSUME NEW i \in 0 .. k + 1 PROVE g[i] = h[i]
    <3>1. CASE i = 0
      <4>1. f[0] = <<>> /\ 0 <= k
        BY <2>1 DEF Recursion
      <4> QED BY <3>1, <4>1
    <3>2. CASE i \in 1 .. k
      <4>0. i \in 0 .. k /\ i # 0
        BY <3>2
      <4>1. f[i] = f[i - 1] \o Piece(es, S, i)
        BY <4>0, <2>1 DEF Recursion
      <4>2. i <= k /\ i - 1 \in 0 .. k + 1 /\ i - 1 <= k
        BY <3>2
      <4>3. g[i] = f[i] /\ g[i - 1] = f[i - 1]
        BY <4>2
      <4> HIDE DEF g
      <4> QED BY <4>0, <4>1, <4>3
    <3>3. CASE i = k + 1
      <4>1. ~(i <= k) /\ i # 0 /\ i - 1 = k /\ k \in 0 .. k + 1 /\ k <= k
        BY <3>3
      <4>2. g[k] = f[k] /\ g[i] = f[k] \o Piece(es, S, k + 1)
        BY <3>3, <4>1
      <4> HIDE DEF g
      <4> QED BY <3>3, <4>1, <4>2
    <3> QED BY <3>1, <3>2, <3>3
  <2>3. g = h
    <3>1. DOMAIN g = DOMAIN h /\ \A i \in DOMAIN g : g[i] = h[i]
      BY <2>2
    <3>2. g = [i \in DOMAIN g |-> g[i]] /\ h = [i \in DOMAIN h |-> h[i]]
      OBVIOUS
    <3> HIDE DEF g, h
    <3> QED BY <3>1, <3>2
  <2>4. Recursion(g, es, S, k + 1)
    <3> HIDE DEF g
    <3> QED BY <2>3 DEF Recursion
  <2>5. k + 1 \in 0 .. n
    OBVIOUS
  <2> HIDE DEF g
  <2> QED BY <2>4, <2>5
<1> HIDE DEF G
<1>3. n \in G
  BY <1>1, <1>2, AllPlaces
<1> QED BY <1>3 DEF G

LEMMA JoinedUnfolds ==
  ASSUME NEW es \in Seq(Entries), NEW S
  PROVE  /\ Joined(es, S)[0] = <<>>
         /\ \A i \in 1 .. Len(es) : Joined(es, S)[i] = Joined(es, S)[i - 1] \o Piece(es, S, i)
<1> DEFINE n == Len(es)
           T == Joined(es, S)
<1>1. n \in Nat
  OBVIOUS
<1>2. T = CHOOSE f : Recursion(f, es, S, n)
  BY DEF Joined, Recursion, Piece
<1> HIDE DEF n, T
<1>3. Recursion(T, es, S, n)
  BY <1>1, <1>2, JoinedExists
<1>4. T[0] = <<>>
  BY <1>1, <1>3 DEF Recursion
<1>5. ASSUME NEW i \in 1 .. n PROVE T[i] = T[i - 1] \o Piece(es, S, i)
  <2>1. i \in 0 .. n /\ i # 0
    BY <1>1
  <2> QED BY <1>3, <2>1 DEF Recursion
<1> QED BY <1>4, <1>5 DEF n, T

(* A joined value grows with the file, and only where it has a part.       *)
LEMMA JoinedText ==
  ASSUME NEW es \in Seq(Entries), NEW S, NEW i \in 0 .. Len(es)
  PROVE  Joined(es, S)[i] \in LineTexts
<1> DEFINE n == Len(es)
           T == Joined(es, S)
           G == {k \in 0 .. n : T[k] \in LineTexts}
<1>1. n \in Nat /\ T[0] = <<>> /\ \A k \in 1 .. n : T[k] = T[k - 1] \o Piece(es, S, k)
  BY JoinedUnfolds
<1> HIDE DEF n, T
<1>2. 0 \in G
  <2>1. <<>> \in LineTexts
    BY DEF LineTexts
  <2> QED BY <1>1, <2>1
<1>3. ASSUME NEW k \in 0 .. n - 1, k \in G PROVE k + 1 \in G
  <2>1. k + 1 \in 1 .. n /\ (k + 1) - 1 = k /\ k + 1 \in 0 .. n
    BY <1>1
  <2>2. es[k + 1] \in Entries
    BY <2>1 DEF n
  <2>3. Piece(es, S, k + 1) \in LineTexts
    <3>1. <<>> \in LineTexts
      BY DEF LineTexts
    <3> QED BY <2>2, <3>1, EntriesAssumption DEF Piece, LineTexts
  <2>4. T[k] \in LineTexts
    BY <1>3
  <2>5. T[k] \o Piece(es, S, k + 1) \in LineTexts
    BY <2>3, <2>4, ConcatProperties DEF LineTexts
  <2> QED BY <2>1, <2>5, <1>1
<1>4. i \in 0 .. n
  BY DEF n
<1> HIDE DEF G
<1>5. i \in G
  BY <1>1, <1>2, <1>3, <1>4, AllPlaces
<1> QED BY <1>5 DEF G, T

LEMMA JoinedGrows ==
  ASSUME NEW es \in Seq(Entries), NEW S, NEW a \in 0 .. Len(es), NEW b \in a .. Len(es)
  PROVE  Len(Joined(es, S)[a]) <= Len(Joined(es, S)[b])
<1> DEFINE n == Len(es)
           T == Joined(es, S)
           G == {k \in 0 .. n - a : Len(T[a]) <= Len(T[a + k])}
<1>1. n \in Nat /\ \A k \in 1 .. n : T[k] = T[k - 1] \o Piece(es, S, k)
  BY JoinedUnfolds
<1>2. \A k \in 0 .. n : Len(T[k]) \in Nat /\ T[k] \in Seq(Chars)
  BY JoinedText DEF LineTexts
<1>3. a \in 0 .. n /\ b \in a .. n
  OBVIOUS
<1>4. ASSUME NEW k \in 1 .. n PROVE Len(T[k - 1]) <= Len(T[k])
  <2>1. es[k] \in Entries
    OBVIOUS
  <2>2. Piece(es, S, k) \in Seq(Chars)
    BY <2>1, EntriesAssumption DEF Piece
  <2> HIDE DEF n, T
  <2>3. k - 1 \in 0 .. n
    BY <1>1
  <2>4. Len(T[k]) = Len(T[k - 1]) + Len(Piece(es, S, k)) /\ Len(Piece(es, S, k)) \in Nat
    <3>1. T[k - 1] \in Seq(Chars) /\ T[k] = T[k - 1] \o Piece(es, S, k)
      BY <1>1, <1>2, <2>3
    <3> QED BY <2>2, <3>1, ConcatProperties
  <2> QED BY <1>2, <2>3, <2>4
<1> HIDE DEF n, T
<1>5. 0 \in G
  <2>1. a + 0 = a /\ 0 \in 0 .. n - a
    BY <1>1, <1>3
  <2> QED BY <1>2, <1>3, <2>1
<1>6. ASSUME NEW k \in 0 .. n - a - 1, k \in G PROVE k + 1 \in G
  <2>1. a + (k + 1) \in 1 .. n /\ a + (k + 1) - 1 = a + k /\ k + 1 \in 0 .. n - a /\ a + k \in 0 .. n
    BY <1>1, <1>3
  <2>2. Len(T[a + k]) <= Len(T[a + (k + 1)])
    BY <2>1, <1>4
  <2>3. Len(T[a]) \in Nat /\ Len(T[a + k]) \in Nat /\ Len(T[a + (k + 1)]) \in Nat
    BY <2>1, <1>1, <1>2, <1>3
  <2> QED BY <1>6, <2>1, <2>2, <2>3
<1> HIDE DEF G
<1>7. b - a \in 0 .. n - a /\ n - a \in Nat /\ a + (b - a) = b
  BY <1>1, <1>3
<1>8. b - a \in G
  BY <1>5, <1>6, <1>7, AllPlaces
<1> QED BY <1>7, <1>8 DEF G, T

LEMMA JoinedSame ==
  ASSUME NEW es \in Seq(Entries), NEW S, NEW a \in 0 .. Len(es), NEW b \in a .. Len(es),
         \A k \in a + 1 .. b : k \notin S
  PROVE  Joined(es, S)[b] = Joined(es, S)[a]
<1> DEFINE n == Len(es)
           T == Joined(es, S)
           G == {k \in 0 .. b - a : T[a + k] = T[a]}
<1>1. n \in Nat /\ \A k \in 1 .. n : T[k] = T[k - 1] \o Piece(es, S, k)
  <2>1. n \in Nat
    OBVIOUS
  <2>2. \A k \in 1 .. n : T[k] = T[k - 1] \o Piece(es, S, k)
    BY JoinedUnfolds
  <2> QED BY <2>1, <2>2
<1>2. \A k \in 0 .. n : T[k] \in Seq(Chars)
  BY JoinedText DEF LineTexts
<1>3. a \in 0 .. n /\ b \in a .. n
  OBVIOUS
<1> HIDE DEF n, T
<1>4. 0 \in G
  <2>1. a + 0 = a /\ 0 \in 0 .. b - a
    BY <1>1, <1>3
  <2> QED BY <2>1
<1>5. ASSUME NEW k \in 0 .. b - a - 1, k \in G PROVE k + 1 \in G
  <2>1. /\ a + (k + 1) \in 1 .. n /\ a + (k + 1) - 1 = a + k /\ k + 1 \in 0 .. b - a
        /\ a + k \in 0 .. n /\ a + (k + 1) \in a + 1 .. b
    BY <1>1, <1>3
  <2>2. Piece(es, S, a + (k + 1)) = <<>>
    BY <2>1 DEF Piece
  <2>3. T[a + k] \in Seq(Chars)
    BY <2>1, <1>2
  <2>5. T[a + (k + 1)] = T[a + k] \o <<>>
    <3> DEFINE x == a + (k + 1)
    <3>1. x \in 1 .. n /\ x - 1 = a + k /\ Piece(es, S, x) = <<>>
      BY <2>1, <2>2
    <3> HIDE DEF x
    <3>2. T[x] = T[x - 1] \o Piece(es, S, x)
      BY <3>1, <1>1
    <3>3. T[x] = T[a + k] \o <<>>
      BY <3>1, <3>2
    <3> QED BY <3>3 DEF x
  <2>4. T[a + k] \o <<>> = T[a + k]
    BY <2>3, ConcatEmptySeq
  <2> QED BY <1>5, <2>1, <2>4, <2>5
<1> HIDE DEF G
<1>6. b - a \in 0 .. b - a /\ b - a \in Nat /\ a + (b - a) = b
  BY <1>1, <1>3
<1>7. b - a \in G
  BY <1>4, <1>5, <1>6, AllPlaces
<1> QED BY <1>6, <1>7 DEF G, T

-----------------------------------------------------------------------------
(* The section looked for starts at its first line, h, and its key is the  *)
(* first one after it, k.                                                  *)
HeadOf(h)   == h \in 1 .. Len(entries) /\ Is(h, "section", Section)
             /\ \A i \in 1 .. h - 1 : ~Is(i, "section", Section)
KeyOf(h, k) == /\ HeadOf(h) /\ k \in h + 1 .. Len(entries) /\ Is(k, "key", KeyName)
               /\ \A i \in h + 1 .. k - 1 : ~Is(i, "key", KeyName)

(* A joined line is followed by one that is no part of a value.            *)
Broken(k) == \E i \in Parts(k).lines \ {k} : entries[i].kind # "part"

(* Up to line n every line of the value is joined to the next one.         *)
JoinedTo(k, n) == /\ entries[k].joint
                  /\ \A i \in k + 1 .. n : entries[i].kind # "remark" => entries[i].joint

(* The value of key line k is in kev up to the line read last.             *)
Collected(k) ==
  /\ entries[k].value # <<>>
  /\ Broken(k) \/ /\ JoinedTo(k, pos)
                  /\ Len(Text(Parts(k).lines)) < LineLen => kev = Joined(entries, Parts(k).lines)[pos]

(* How far the search has come.                                            *)
Search ==
  \/ found = 0 /\ \A i \in 1 .. pos : ~Is(i, "section", Section)
  \/ found = 1 /\ \E h \in 1 .. pos : HeadOf(h) /\ \A i \in h + 1 .. pos : ~Is(i, "key", KeyName)
  \/ found = 2 /\ \E h, k \in 1 .. pos : KeyOf(h, k) /\ Collected(k)

SearchInv == ReadsIni /\ (result = Running /\ newline => Search)

LEMMA LineIs ==
  ASSUME TypeInv, newline = TRUE, NEW i \in 1 .. Len(entries)
  PROVE  entries[i] \in Entries /\ Line(i) = Rendered(entries[i])
BY DEF Line, readline, TypeInv

LEMMA KeyFound ==
  ASSUME TypeInv, NEW h, HeadOf(h)
  PROVE  LET heads == Lines(1, Len(entries), "section", Section)
             keys  == Lines(h + 1, Len(entries), "key", KeyName)
         IN /\ heads # {} /\ Least(heads) = h
            /\ \A k : KeyOf(h, k) => keys # {} /\ Least(keys) = k
<1> DEFINE heads == Lines(1, Len(entries), "section", Section)
           keys  == Lines(h + 1, Len(entries), "key", KeyName)
<1>1. Len(entries) \in Nat /\ h \in 1 .. Len(entries)
  BY DEF TypeInv, HeadOf
<1>2. heads \in SUBSET Int /\ keys \in SUBSET Int
  BY <1>1 DEF Lines
<1>3. h \in heads /\ \A i \in heads : h <= i
  BY <1>1 DEF Lines, HeadOf
<1>4. ASSUME NEW k, KeyOf(h, k) PROVE k \in keys /\ \A i \in keys : k <= i
  BY <1>1, <1>4 DEF Lines, KeyOf
<1> HIDE DEF heads, keys
<1>5. Least(heads) = h
  BY <1>2, <1>3, EndsAre
<1>6. ASSUME NEW k, KeyOf(h, k) PROVE keys # {} /\ Least(keys) = k
  <2>1. k \in keys /\ \A i \in keys : k <= i
    BY <1>4, <1>6
  <2> QED BY <1>2, <2>1, EndsAre
<1> QED BY <1>3, <1>5, <1>6 DEF heads, keys

(* What a return must do for ReadsIni, for each outcome of the search.     *)
LEMMA KeyMeant ==
  ASSUME TypeInv, entries' = entries, NEW h, NEW k, KeyOf(h, k), ~Broken(k) => Meant(k)'
  PROVE  ReadsIni'
<1> DEFINE n     == Len(entries)
           heads == Lines(1, n, "section", Section)
           keys  == Lines(h + 1, n, "key", KeyName)
<1>1. heads # {} /\ Least(heads) = h /\ keys # {} /\ Least(keys) = k
  BY KeyFound DEF KeyOf
<1>2. /\ Lines(1, Len(entries), "section", Section)' = heads
      /\ Lines(h + 1, Len(entries), "key", KeyName)' = keys
      /\ Parts(k)' = Parts(k)
  BY DEF Lines, Is, Parts
<1>3. (\A i \in Parts(k).lines \ {k} : entries[i].kind = "part")' => ~Broken(k)
  BY <1>2 DEF Broken
<1> HIDE DEF heads, keys
<1> QED BY <1>1, <1>2, <1>3 DEF ReadsIni

LEMMA NoKeyMeant ==
  ASSUME TypeInv, entries' = entries, result'.code = 3,
         \/ \A i \in 1 .. Len(entries) : ~Is(i, "section", Section)
         \/ \E h : HeadOf(h) /\ \A i \in h + 1 .. Len(entries) : ~Is(i, "key", KeyName)
  PROVE  ReadsIni'
<1>1. CASE \A i \in 1 .. Len(entries) : ~Is(i, "section", Section)
  <2>1. Lines(1, Len(entries), "section", Section)' = {}
    BY <1>1 DEF Lines, Is
  <2> QED BY <2>1 DEF ReadsIni
<1>2. CASE \E h : HeadOf(h) /\ \A i \in h + 1 .. Len(entries) : ~Is(i, "key", KeyName)
  <2>1. PICK h : HeadOf(h) /\ \A i \in h + 1 .. Len(entries) : ~Is(i, "key", KeyName)
    BY <1>2
  <2>2. Least(Lines(1, Len(entries), "section", Section)) = h
    BY <2>1, KeyFound
  <2>3. Lines(1, Len(entries), "section", Section)' = Lines(1, Len(entries), "section", Section)
        /\ Lines(h + 1, Len(entries), "key", KeyName)' = {}
    BY <2>1 DEF Lines, Is
  <2> QED BY <2>2, <2>3 DEF ReadsIni
<1> QED BY <1>1, <1>2

-----------------------------------------------------------------------------
(* The lines of a value.                                                   *)
LEMMA Joint ==
  ASSUME TypeInv, NEW i \in 1 .. Len(entries)
  PROVE  entries[i] \in Entries /\ (entries[i].joint = TRUE \/ entries[i].joint = FALSE)
BY EntriesAssumption DEF TypeInv

LEMMA PartsFrom ==
  ASSUME TypeInv, NEW k \in 1 .. Len(entries)
  PROVE  /\ Parts(k).lines \subseteq k .. Len(entries)
         /\ \A j \in k + 1 .. Len(entries) : entries[j].kind = "remark" => j \notin Parts(k).lines
<1> DEFINE after == {k} \cup {j \in k + 1 .. Len(entries) : entries[j].kind # "remark"}
<1>1. Len(entries) \in Nat /\ k \in Nat
  BY DEF TypeInv
<1>2. Parts(k).lines \subseteq after
  BY DEF Parts
<1>3. after \subseteq k .. Len(entries)
  BY <1>1
<1>4. \A j \in k + 1 .. Len(entries) : entries[j].kind = "remark" => j \notin after
  BY <1>1
<1> HIDE DEF after
<1> QED BY <1>2, <1>3, <1>4

(* Up to the line that is joined to no other, every line but the remarks   *)
(* is one of the value's; that one is the last.                            *)
LEMMA PartNext ==
  ASSUME TypeInv, NEW k \in 1 .. Len(entries), NEW p \in k .. Len(entries),
         p = k \/ (JoinedTo(k, p - 1) /\ entries[p].kind # "remark")
  PROVE  /\ p \in Parts(k).lines
         /\ entries[p].joint = FALSE => Parts(k).whole = TRUE /\ Parts(k).lines \subseteq k .. p
<1> DEFINE n     == Len(entries)
           after == {k} \cup {j \in k + 1 .. n : entries[j].kind # "remark"}
           plain == {j \in after : ~entries[j].joint}
<1>1. n \in Nat /\ k \in 1 .. n /\ p \in k .. n
  BY DEF TypeInv
<1>2. Parts(k).lines = (IF plain = {} THEN after ELSE {j \in after : j <= Least(plain)})
      /\ Parts(k).whole = (plain # {})
  BY DEF Parts
<1>3. p \in after /\ after \subseteq k .. n
  BY <1>1
<1>4. plain \in SUBSET (1 .. n)
  BY <1>1, <1>3
<1>5. ASSUME NEW j \in plain, j < p PROVE FALSE
  <2>1. j \in after /\ ~entries[j].joint
    OBVIOUS
  <2>2. p # k /\ JoinedTo(k, p - 1)
    BY <1>1, <1>3, <1>5, <2>1
  <2>3. CASE j = k
    BY <2>1, <2>2, <2>3 DEF JoinedTo
  <2>4. CASE j \in k + 1 .. n /\ entries[j].kind # "remark"
    <3>1. j \in k + 1 .. p - 1
      BY <1>1, <1>5, <2>4
    <3> QED BY <2>1, <2>2, <2>4, <3>1 DEF JoinedTo
  <2> QED BY <2>1, <2>3, <2>4
<1>6. entries[p].joint = FALSE => p \in plain
  BY <1>3
<1> HIDE DEF n, after, plain
<1>7. \A j \in plain : p <= j
  BY <1>1, <1>4, <1>5
<1>8. plain # {} => Least(plain) \in plain
  BY <1>1, <1>4, LeastPlace
<1>9. p \in Parts(k).lines
  BY <1>2, <1>3, <1>7, <1>8
<1>10. ASSUME entries[p].joint = FALSE
       PROVE  Parts(k).whole = TRUE /\ Parts(k).lines \subseteq k .. p
  <2>1. p \in plain /\ plain \in SUBSET Int
    BY <1>4, <1>6, <1>10
  <2>2. Least(plain) = p
    BY <1>7, <2>1, EndsAre
  <2>3. Parts(k).lines = {j \in after : j <= p} /\ Parts(k).whole = TRUE
    <3>1. plain # {}
      BY <2>1
    <3>2. Parts(k).whole = TRUE
      BY <1>2, <3>1, Zenon
    <3>3. Parts(k).lines = {j \in after : j <= p}
      BY <1>2, <2>2, <3>1
    <3> QED BY <3>2, <3>3
  <2>4. Parts(k).lines \subseteq k .. p
    <3>1. ASSUME NEW j \in Parts(k).lines PROVE j \in k .. p
      <4>1. j \in k .. n /\ j <= p
        BY <1>3, <2>3
      <4> QED BY <1>1, <4>1
    <3> QED BY <3>1
  <2> QED BY <2>3, <2>4
<1> QED BY <1>9, <1>10

LEMMA AllJoined ==
  ASSUME TypeInv, NEW k \in 1 .. Len(entries), JoinedTo(k, Len(entries))
  PROVE  Parts(k).whole = FALSE
<1> DEFINE n     == Len(entries)
           after == {k} \cup {j \in k + 1 .. n : entries[j].kind # "remark"}
           plain == {j \in after : ~entries[j].joint}
<1>1. \A j \in after : entries[j].joint
  BY DEF JoinedTo
<1>2. plain = {}
  BY <1>1
<1> QED BY <1>2 DEF Parts

(* The value grows up to its last line, from nothing at its first.         *)
LEMMA TextUpTo ==
  ASSUME TypeInv, NEW k \in 1 .. Len(entries), NEW i \in k .. Len(entries)
  PROVE  LET S == Parts(k).lines
             T == Joined(entries, S)
         IN /\ T[k - 1] = <<>>
            /\ T[i] \in LineTexts /\ T[i - 1] \in LineTexts
            /\ Len(T[i]) <= Len(Text(S)) /\ Len(Text(S)) \in Nat
            /\ T[i] = T[i - 1] \o Piece(entries, S, i)
            /\ S \subseteq k .. i => Text(S) = T[i]
<1> DEFINE S == Parts(k).lines
           T == Joined(entries, S)
           n == Len(entries)
<1>1. entries \in Seq(Entries) /\ n \in Nat /\ k \in 1 .. n /\ i \in k .. n
  BY DEF TypeInv
<1>2. k - 1 \in 0 .. n /\ k - 1 \in 0 .. n /\ i \in 0 .. n /\ i - 1 \in 0 .. n /\ i \in 1 .. n
      /\ 0 \in 0 .. n /\ n \in i .. n /\ n \in 0 .. n
  BY <1>1
<1>3. S \subseteq k .. n
  BY PartsFrom
<1>4. Text(S) = T[n]
  BY DEF Text
<1> HIDE DEF S
<1>5. T[0] = <<>> /\ T[i] = T[i - 1] \o Piece(entries, S, i)
  <2>1. i \in 1 .. Len(entries)
    BY <1>2
  <2> QED BY <1>1, <2>1, JoinedUnfolds
<1>6. T[k - 1] = T[0]
  <2>1. \A j \in 0 + 1 .. k - 1 : j \notin S
    BY <1>1, <1>3
  <2>2. 0 \in 0 .. Len(entries) /\ k - 1 \in 0 .. Len(entries)
    BY <1>2
  <2> QED BY <1>1, <2>1, <2>2, JoinedSame
<1>7. T[i] \in LineTexts /\ T[i - 1] \in LineTexts /\ T[n] \in LineTexts
  <2>1. i \in 0 .. Len(entries) /\ i - 1 \in 0 .. Len(entries) /\ n \in 0 .. Len(entries)
    BY <1>2
  <2> QED BY <1>1, <2>1, JoinedText
<1>8. Len(T[i]) <= Len(T[n])
  <2>1. i \in 0 .. Len(entries) /\ n \in i .. Len(entries)
    BY <1>2
  <2> QED BY <1>1, <2>1, JoinedGrows
<1>9. Len(T[n]) \in Nat
  BY <1>7 DEF LineTexts
<1>10. ASSUME S \subseteq k .. i PROVE T[n] = T[i]
  <2>1. \A j \in i + 1 .. n : j \notin S
    BY <1>1, <1>10
  <2>2. i \in 0 .. Len(entries) /\ n \in i .. Len(entries)
    BY <1>2
  <2> QED BY <1>1, <2>1, <2>2, JoinedSame
<1> HIDE DEF T, n
<1>11. /\ T[k - 1] = <<>>
       /\ T[i] \in LineTexts /\ T[i - 1] \in LineTexts
       /\ Len(T[i]) <= Len(Text(S)) /\ Len(Text(S)) \in Nat
       /\ T[i] = T[i - 1] \o Piece(entries, S, i)
       /\ S \subseteq k .. i => Text(S) = T[i]
  BY <1>4, <1>5, <1>6, <1>7, <1>8, <1>9, <1>10
<1> QED BY <1>11 DEF S, T

-----------------------------------------------------------------------------
(* Collect puts the value's next part behind the ones before it, and ends  *)
(* with the whole value.                                                   *)
LEMMA CutWhole ==
  ASSUME NEW v \in LineTexts, NEW n, n = IF Len(v) > BufLen THEN BufLen ELSE Len(v)
  PROVE  SubSeq(v, 1, n) = IF Len(v) < BufLen THEN v ELSE SubSeq(v, 1, BufLen)
<1>1. Len(v) \in Nat /\ BufLen \in Nat
  BY SizesAssumption DEF LineTexts
<1>2. CASE Len(v) < BufLen
  <2>1. n = Len(v)
    BY <1>1, <1>2
  <2>2. SubSeq(v, 1, Len(v)) = v
    BY SubSeqFull DEF LineTexts
  <2> QED BY <1>2, <2>1, <2>2
<1>3. CASE ~(Len(v) < BufLen)
  <2>1. n = BufLen
    BY <1>1, <1>3
  <2> QED BY <1>3, <2>1
<1> QED BY <1>2, <1>3

LEMMA WholeMeant ==
  ASSUME NEW k, entries' = entries, entries[k].value # <<>>, Parts(k).whole = TRUE,
         kev' = Text(Parts(k).lines), kev' \in LineTexts, Return(0)
  PROVE  Meant(k)'
<1> DEFINE v == Text(Parts(k).lines)
           n == IF Len(kev') > BufLen THEN BufLen ELSE Len(kev')
<1>1. /\ result'.code = 0 /\ result'.ended = (Len(kev') < BufLen)
      /\ result'.value = SubSeq(kev', 1, n)
  <2>1. result' = [code |-> 0, value |-> IF 0 = 0 THEN SubSeq(kev', 1, n) ELSE <<>>,
                   ended |-> 0 # 0 \/ Len(kev') < BufLen]
    BY DEF Return
  <2> HIDE DEF n
  <2>2. result'.code = 0 /\ result'.value = SubSeq(kev', 1, n)
    BY <2>1
  <2>3. result'.ended = (Len(kev') < BufLen)
    BY <2>1
  <2> QED BY <2>2, <2>3
<1>2. SubSeq(kev', 1, n) = IF Len(kev') < BufLen THEN kev' ELSE SubSeq(kev', 1, BufLen)
  BY CutWhole
<1>3. Parts(k)' = Parts(k)
  BY DEF Parts
<1>4. Text(Parts(k).lines)' = v
  BY <1>3 DEF Text
<1> HIDE DEF n
<1>5. v = kev'
  OBVIOUS
<1> HIDE DEF v
<1>6. result'.value = IF result'.ended THEN v ELSE SubSeq(v, 1, BufLen)
  BY <1>1, <1>2, <1>5
<1> QED BY <1>1, <1>3, <1>4, <1>5, <1>6, Zenon DEF Meant

LEMMA PartCollected ==
  ASSUME TypeInv, entries' = entries, result = Running,
         NEW h, NEW k, KeyOf(h, k), entries[k].value # <<>>,
         NEW p \in k .. Len(entries), pos' = p,
         entries[p].kind \in {"key", "part"}, entries[p].value # <<>>,
         p = k \/ JoinedTo(k, p - 1),
         Len(Text(Parts(k).lines)) < LineLen => kev = Joined(entries, Parts(k).lines)[p - 1],
         Collect(Cut(ValueText(entries[p]), LineLen - Len(kev)))
  PROVE  ReadsIni' /\ (result' = Running => found' = 2 /\ Collected(k)')
<1> DEFINE e == entries[p]
           S == Parts(k).lines
           T == Joined(entries, S)
           v == Text(S)
           room == LineLen - Len(kev)
           w == Cut(ValueText(e), room)
<1>0. entries'[k].value # <<>>
  OBVIOUS
<1>1. k \in 1 .. Len(entries) /\ p \in 1 .. Len(entries) /\ Len(entries) \in Nat
  BY DEF KeyOf, HeadOf, TypeInv
<1>2. e \in Entries /\ (e.joint = TRUE \/ e.joint = FALSE) /\ e.value \in LineTexts
  BY <1>1, Joint, EntriesAssumption DEF LineTexts
<1>3. room \in Nat \ {0} /\ Len(kev) \in Nat /\ LineLen \in Nat
  BY SizesAssumption DEF TypeInv, TypeOK, LineTexts
<1>4. w.joint = e.joint /\ (Len(e.value) < room => w.text = e.value)
  BY <1>2, <1>3, ValueFound
<1>5. p \in S /\ (e.joint = FALSE => Parts(k).whole = TRUE /\ S \subseteq k .. p)
  BY <1>1, PartNext
<1>6. /\ T[p] \in LineTexts /\ Len(T[p]) <= Len(v) /\ Len(v) \in Nat
      /\ T[p - 1] \in LineTexts
      /\ T[p] = T[p - 1] \o e.value
      /\ S \subseteq k .. p => v = T[p]
  <2>1. Piece(entries, S, p) = e.value
    BY <1>5 DEF Piece
  <2> QED BY <1>1, <2>1, TextUpTo
<1>7. Running.code = -1
  BY DEF Running
<1>8. Collect(w) /\ kev' = kev \o w.text
  BY DEF Collect
<1> HIDE DEF e, room, w
<1>9. ASSUME found' = 2, UNCHANGED result, e.joint = TRUE,
             Len(v) < LineLen => kev' = T[p]
      PROVE  ReadsIni' /\ found' = 2 /\ Collected(k)'
  <2>1. ReadsIni'
    BY <1>9 DEF ReadsIni
  <2>2. JoinedTo(k, p)
    <3>1. entries[k].joint
      BY <1>9 DEF JoinedTo, e
    <3>2. ASSUME NEW i \in k + 1 .. p, entries[i].kind # "remark" PROVE entries[i].joint
      <4>1. i = p \/ (i \in k + 1 .. p - 1 /\ p # k)
        BY <1>1
      <4> QED BY <1>9, <3>2, <4>1 DEF JoinedTo, e
    <3> QED BY <3>1, <3>2 DEF JoinedTo
  <2>3. /\ Parts(k)' = Parts(k) /\ Broken(k)' = Broken(k) /\ JoinedTo(k, pos)' = JoinedTo(k, p)
        /\ Text(Parts(k).lines)' = v /\ Joined(entries, Parts(k).lines)' = T
    <3>1. Parts(k)' = Parts(k)
      BY DEF Parts
    <3> QED BY <3>1 DEF Broken, JoinedTo, Text
  <2> HIDE DEF T, v
  <2> QED BY <1>9, <2>1, <2>2, <2>3 DEF Collected
<1>10. ASSUME Meant(k)', result'.code # -1
       PROVE  ReadsIni' /\ (result' = Running => found' = 2 /\ Collected(k)')
  <2>1. ReadsIni'
    BY <1>10, KeyMeant
  <2> QED BY <1>7, <1>10, <2>1
<1>11. CASE Len(v) < LineLen
  <2>1. kev = T[p - 1]
    BY <1>11
  <2>2. Len(T[p]) = Len(kev) + Len(e.value) /\ Len(e.value) \in Nat
    <3>1. kev \in Seq(Chars) /\ e.value \in Seq(Chars) /\ T[p] = kev \o e.value
      BY <1>2, <1>6, <2>1 DEF LineTexts
    <3> HIDE DEF T
    <3> QED BY <3>1, ConcatProperties
  <2>3. Len(e.value) < room
    <3> HIDE DEF T, v
    <3> QED BY <1>3, <1>6, <1>11, <2>2 DEF room
  <2>4. w.text = e.value /\ kev' = T[p]
    BY <1>4, <1>6, <1>8, <2>1, <2>3
  <2>5. CASE e.joint = TRUE
    <3>1. found' = 2 /\ UNCHANGED result
      BY <1>4, <1>8, <2>4, <2>5 DEF Collect, e
    <3> QED BY <1>9, <2>4, <2>5, <3>1
  <2>6. CASE e.joint = FALSE
    <3>1. Return(0)
      BY <1>4, <1>8, <2>4, <2>6 DEF Collect, e
    <3>2. Parts(k).whole = TRUE /\ kev' = v /\ kev' \in LineTexts
      BY <1>5, <1>6, <2>4, <2>6
    <3>3. Meant(k)'
      BY <3>1, <3>2, WholeMeant
    <3>4. result'.code # -1
      BY <3>1 DEF Return
    <3> QED BY <1>10, <3>3, <3>4
  <2> QED BY <1>2, <2>5, <2>6
<1>12. CASE ~(Len(v) < LineLen)
  <2>1. ASSUME NEW code \in {0, 4}, Return(code) PROVE Meant(k)' /\ result'.code # -1
    <3>1. result'.code = code
      BY <2>1 DEF Return
    <3>2. Text(Parts(k).lines)' = v
      <4>1. Parts(k)' = Parts(k)
        BY DEF Parts
      <4> QED BY <4>1 DEF Text
    <3>3. Len(v) >= LineLen
      BY <1>3, <1>6, <1>12
    <3> HIDE DEF v
    <3>4. code \in {0, 3, 4} /\ code # -1
      OBVIOUS
    <3>5. result'.code \in {0, 3, 4} /\ result'.code # -1
      BY <3>1, <3>4
    <3>6. entries'[k].value # <<>>
      BY <1>0
    <3>7. Meant(k)'
      BY <3>2, <3>3, <3>5, <3>6, Zenon DEF Meant
    <3> QED BY <3>5, <3>7
  <2>2. CASE Return(0) \/ Return(4)
    <3>1. Meant(k)' /\ result'.code # -1
      BY <2>1, <2>2
    <3> QED BY <1>10, <3>1
  <2>3. CASE w.joint /\ found' = 2 /\ UNCHANGED result
    <3>1. e.joint = TRUE
      BY <1>2, <1>4, <2>3
    <3> QED BY <1>9, <1>12, <2>3, <3>1
  <2> QED BY <1>8, <2>2, <2>3 DEF Collect
<1> QED BY <1>11, <1>12

-----------------------------------------------------------------------------
(* The search, line by line.                                               *)
LEMMA SearchKept ==
  ASSUME entries' = entries
  PROVE  /\ \A i, kind, name : Is(i, kind, name)' = Is(i, kind, name)
         /\ \A h : HeadOf(h)' = HeadOf(h)
         /\ \A h, k : KeyOf(h, k)' = KeyOf(h, k)
         /\ \A k : Parts(k)' = Parts(k) /\ Broken(k)' = Broken(k) /\ Text(Parts(k).lines)' = Text(Parts(k).lines)
<1>1. \A i, kind, name : Is(i, kind, name)' = Is(i, kind, name)
  BY DEF Is
<1>2. \A h : HeadOf(h)' = HeadOf(h)
  BY DEF HeadOf, Is
<1>3. \A h, k : KeyOf(h, k)' = KeyOf(h, k)
  BY DEF KeyOf, HeadOf, Is
<1>4. \A k : Parts(k)' = Parts(k)
  BY DEF Parts
<1>5. \A k : Broken(k)' = Broken(k) /\ Text(Parts(k).lines)' = Text(Parts(k).lines)
  BY <1>4 DEF Broken, Text
<1> QED BY <1>1, <1>2, <1>3, <1>4, <1>5

(* A remark changes nothing.                                               *)
LEMMA RemarkRead ==
  ASSUME TypeInv, Search, entries' = entries, pos < Len(entries), pos' = pos + 1,
         entries[pos + 1].kind = "remark", UNCHANGED <<found, kev>>
  PROVE  Search'
<1> DEFINE p == pos + 1
<1>1. p \in 1 .. Len(entries) /\ pos \in Nat /\ Len(entries) \in Nat /\ p - 1 = pos
  BY DEF TypeInv, TypeOK
<1>2. \A name : ~Is(p, "section", name) /\ ~Is(p, "key", name)
  BY DEF Is
<1>3. \A a \in Nat : \A i \in a .. p : i = p \/ i \in a .. pos
  BY <1>1
<1>4. pos' = p
  OBVIOUS
<1> HIDE DEF p
<1>5. CASE found = 0 /\ \A i \in 1 .. pos : ~Is(i, "section", Section)
  <2>1. \A i \in 1 .. p : ~Is(i, "section", Section)
    BY <1>2, <1>3, <1>5
  <2> QED BY <1>4, <1>5, <2>1, SearchKept DEF Search
<1>6. CASE found = 1 /\ \E h \in 1 .. pos : HeadOf(h) /\ \A i \in h + 1 .. pos : ~Is(i, "key", KeyName)
  <2>1. PICK h \in 1 .. pos : HeadOf(h) /\ \A i \in h + 1 .. pos : ~Is(i, "key", KeyName)
    BY <1>6
  <2>2. h + 1 \in Nat /\ h \in 1 .. p
    BY <1>1
  <2>3. \A i \in h + 1 .. p : ~Is(i, "key", KeyName)
    BY <1>2, <1>3, <2>1, <2>2
  <2> QED BY <1>4, <1>6, <2>1, <2>2, <2>3, SearchKept DEF Search
<1>7. CASE found = 2 /\ \E h, k \in 1 .. pos : KeyOf(h, k) /\ Collected(k)
  <2>1. PICK h \in 1 .. pos, k \in 1 .. pos : KeyOf(h, k) /\ Collected(k)
    BY <1>7
  <2>2. h \in 1 .. p /\ k \in 1 .. p /\ k \in 1 .. Len(entries) /\ p \in k + 1 .. Len(entries)
    BY <1>1
  <2>3. JoinedTo(k, pos) => JoinedTo(k, p)
    <3>1. k + 1 \in Nat
      BY <1>1
    <3>2. \A i \in k + 1 .. p : i = p \/ i \in k + 1 .. pos
      BY <1>3, <3>1
    <3>3. entries[p].kind = "remark"
      BY DEF p
    <3> QED BY <3>2, <3>3 DEF JoinedTo
  <2> DEFINE T == Joined(entries, Parts(k).lines)
  <2>4. T[p] = T[pos]
    <3>1. p \notin Parts(k).lines
      <4>1. entries[p].kind = "remark"
        BY DEF p
      <4> QED BY <2>2, <4>1, PartsFrom
    <3>2. \A j \in pos + 1 .. p : j \notin Parts(k).lines
      BY <1>1, <3>1 DEF p
    <3>3. pos \in 0 .. Len(entries) /\ p \in pos .. Len(entries) /\ entries \in Seq(Entries)
      BY <1>1 DEF TypeInv
    <3> QED BY <3>2, <3>3, JoinedSame
  <2>5. /\ Joined(entries, Parts(k).lines)'[pos'] = T[p]
        /\ JoinedTo(k, pos)' = JoinedTo(k, p)
    BY <1>4, SearchKept DEF JoinedTo
  <2>6. Collected(k)'
    <3> HIDE DEF T
    <3>1. Parts(k)' = Parts(k) /\ Broken(k)' = Broken(k) /\ Text(Parts(k).lines)' = Text(Parts(k).lines)
      BY SearchKept
    <3>2. entries[k].value # <<>> /\ (Broken(k) \/ (JoinedTo(k, pos)
            /\ (Len(Text(Parts(k).lines)) < LineLen => kev = T[pos])))
      BY <2>1 DEF Collected, T
    <3> QED BY <2>3, <2>4, <2>5, <3>1, <3>2 DEF Collected
  <2> QED BY <1>4, <1>7, <2>1, <2>2, <2>6, SearchKept DEF Search
<1> QED BY <1>5, <1>6, <1>7 DEF Search

(* While the section is looked for, its first line is found.               *)
LEMMA SectionRead ==
  ASSUME TypeInv, Search, entries' = entries, newline = TRUE, pos < Len(entries), pos' = pos + 1,
         entries[pos + 1].kind # "remark", found = 0,
         found' = IF getsection(Line(pos + 1)) = Section THEN 1 ELSE 0
  PROVE  Search'
<1> DEFINE p == pos + 1
           s == Line(p)
<1>1. p \in 1 .. Len(entries) /\ pos \in Nat /\ Len(entries) \in Nat /\ pos = p - 1 /\ pos' = p
  BY DEF TypeInv, TypeOK
<1>2. entries[p] \in Entries /\ s = Rendered(entries[p])
  BY <1>1, LineIs
<1>3. \A i \in 1 .. p - 1 : ~Is(i, "section", Section)
  BY <1>1 DEF Search
<1>4. getsection(s) = Section <=> Is(p, "section", Section)
  <2>1. getsection(s) = IF entries[p].kind = "section" THEN entries[p].name ELSE <<>>
    BY <1>2, LinesReadBack
  <2> HIDE DEF s
  <2> QED BY <2>1, KeyAssumption DEF Is
<1>5. found' = IF getsection(s) = Section THEN 1 ELSE 0
  OBVIOUS
<1> HIDE DEF p, s
<1>6. CASE Is(p, "section", Section)
  <2>1. HeadOf(p) /\ p \in 1 .. p /\ \A i \in p + 1 .. p : ~Is(i, "key", KeyName)
    BY <1>1, <1>3, <1>6 DEF HeadOf
  <2>2. found' = 1
    BY <1>4, <1>5, <1>6
  <2> QED BY <1>1, <2>1, <2>2, SearchKept DEF Search
<1>7. CASE ~Is(p, "section", Section)
  <2>1. \A i \in 1 .. p : i = p \/ i \in 1 .. p - 1
    BY <1>1
  <2>2. \A i \in 1 .. p : ~Is(i, "section", Section)
    BY <1>3, <1>7, <2>1
  <2>3. found' = 0
    BY <1>4, <1>5, <1>7
  <2> QED BY <1>1, <2>2, <2>3, SearchKept DEF Search
<1> QED BY <1>6, <1>7

(* While the key is looked for, its first line gives its value's first part. *)
LEMMA KeyRead ==
  ASSUME TypeInv, Search, entries' = entries, newline = TRUE, result = Running,
         pos < Len(entries), pos' = pos + 1,
         entries[pos + 1].kind # "remark", found = 1,
         IF getkeyname(Line(pos + 1)) = KeyName THEN Collect(getkeyvalue(Line(pos + 1))) ELSE Skip
  PROVE  ReadsIni' /\ (result' = Running => Search')
<1>0. PICK p \in 1 .. Len(entries) : p = pos + 1
  BY DEF TypeInv, TypeOK
<1> DEFINE s == Line(p)
<1>1. p \in 1 .. Len(entries) /\ pos \in Nat /\ Len(entries) \in Nat /\ pos = p - 1 /\ pos' = p
  BY <1>0 DEF TypeInv, TypeOK
<1>2. entries[p] \in Entries /\ s = Rendered(entries[p])
  BY <1>1, LineIs
<1>3. PICK h \in 1 .. pos : HeadOf(h) /\ \A i \in h + 1 .. p - 1 : ~Is(i, "key", KeyName)
  BY <1>1 DEF Search
<1>4. h \in 1 .. p /\ p \in h + 1 .. Len(entries) /\ \A i \in h + 1 .. p : i = p \/ i \in h + 1 .. p - 1
  BY <1>1
<1>5. getkeyname(s) = KeyName <=> Is(p, "key", KeyName)
  <2>1. getkeyname(s) = IF entries[p].kind = "key" THEN entries[p].name ELSE <<>>
    BY <1>0, <1>2, LinesReadBack
  <2> HIDE DEF s
  <2> QED BY <2>1, KeyAssumption DEF Is
<1>6. IF getkeyname(s) = KeyName THEN Collect(getkeyvalue(s)) ELSE Skip
  BY <1>0
<1> HIDE DEF s
<1>7. CASE ~Is(p, "key", KeyName)
  <2>1. UNCHANGED <<found, kev, result>>
    BY <1>5, <1>6, <1>7 DEF Skip
  <2>2. \A i \in h + 1 .. p : ~Is(i, "key", KeyName)
    BY <1>3, <1>4, <1>7
  <2>3. Search'
    BY <1>1, <1>3, <1>4, <2>1, <2>2, SearchKept DEF Search
  <2>4. ReadsIni'
    BY <2>1 DEF ReadsIni
  <2> QED BY <2>3, <2>4
<1>8. CASE Is(p, "key", KeyName)
  <2>1. KeyOf(h, p)
    BY <1>3, <1>4, <1>8 DEF KeyOf
  <2>2. entries[p].kind = "key" /\ entries[p].kind \in {"key", "part"}
    BY <1>8 DEF Is
  <2>3. kev = <<>> /\ LineLen - Len(kev) = LineLen
    <3>1. kev = <<>>
      BY DEF TypeInv
    <3>2. Len(kev) = 0
      BY <3>1
    <3> QED BY <3>1, <3>2, SizesAssumption
  <2> DEFINE w == Cut(ValueText(entries[p]), LineLen)
  <2>4. Collect(w)
    <3>1. getkeyvalue(s) = w
      BY <1>2, <2>2, KeyLine DEF getkeyvalue
    <3> HIDE DEF w
    <3> QED BY <1>5, <1>6, <1>8, <3>1
  <2>5. CASE entries[p].value = <<>>
    <3>1. w.text = <<>>
      BY <1>2, <2>2, <2>5, ValueFound, SizesAssumption
    <3> HIDE DEF w
    <3>2. Return(4)
      BY <2>4, <3>1 DEF Collect
    <3>3. result'.code = 4
      BY <3>2 DEF Return
    <3>4. Meant(p)'
      BY <2>5, <3>3, Zenon DEF Meant
    <3>5. result' # Running
      BY <3>3 DEF Running
    <3> QED BY <2>1, <3>4, <3>5, KeyMeant
  <2>6. CASE entries[p].value # <<>>
    <3>1. Joined(entries, Parts(p).lines)[p - 1] = <<>>
      <4>1. p \in p .. Len(entries)
        BY <1>1
      <4> QED BY <1>1, <4>1, TextUpTo
    <3>2. Collect(Cut(ValueText(entries[p]), LineLen - Len(kev)))
      BY <2>3, <2>4
    <3>3. p \in p .. Len(entries)
      BY <1>1
    <3> HIDE DEF w
    <3>4. ReadsIni' /\ (result' = Running => found' = 2 /\ Collected(p)')
      BY <1>1, <2>1, <2>2, <2>3, <2>6, <3>1, <3>2, <3>3, PartCollected
    <3>5. p \in 1 .. p
      BY <1>1
    <3> QED BY <1>1, <1>4, <2>1, <3>4, <3>5, SearchKept DEF Search
  <2> QED BY <2>5, <2>6
<1> QED BY <1>7, <1>8

(* While the value is collected, every line that is no remark is a part.   *)
LEMMA RestRead ==
  ASSUME TypeInv, Search, entries' = entries, newline = TRUE, result = Running,
         pos < Len(entries), pos' = pos + 1,
         entries[pos + 1].kind # "remark", found = 2, Collect(getkeyadd(Line(pos + 1)))
  PROVE  ReadsIni' /\ (result' = Running => Search')
<1> DEFINE p == pos + 1
           s == Line(p)
<1>1. p \in 1 .. Len(entries) /\ pos \in Nat /\ Len(entries) \in Nat /\ pos = p - 1 /\ pos' = p
  BY DEF TypeInv, TypeOK
<1>2. entries[p] \in Entries /\ s = Rendered(entries[p]) /\ Collect(getkeyadd(s))
  BY <1>1, LineIs
<1>3. PICK h \in 1 .. pos, k \in 1 .. pos : KeyOf(h, k) /\ Collected(k)
  BY DEF Search
<1>4. h \in 1 .. p /\ k \in 1 .. p /\ p \in k .. Len(entries) /\ k \in 1 .. Len(entries) /\ p # k
  BY <1>1
<1>5. entries[p].kind # "remark"
  OBVIOUS
<1> HIDE DEF p, s
<1>6. CASE Broken(k)
  <2>1. ReadsIni'
    BY <1>3, <1>6, KeyMeant
  <2>2. result' = Running => found' = 2
    <3>1. ASSUME NEW code \in {0, 4}, Return(code) PROVE result' # Running
      BY <3>1 DEF Return, Running
    <3> QED BY <1>2, <3>1 DEF Collect
  <2>3. Collected(k)'
    <3>1. Broken(k)' /\ entries[k].value # <<>>
      BY <1>3, <1>6, SearchKept DEF Collected
    <3> QED BY <3>1 DEF Collected
  <2> QED BY <1>1, <1>3, <1>4, <2>1, <2>2, <2>3, SearchKept DEF Search
<1>7. CASE ~Broken(k)
  <2>1. /\ entries[k].value # <<>> /\ JoinedTo(k, p - 1)
        /\ Len(Text(Parts(k).lines)) < LineLen => kev = Joined(entries, Parts(k).lines)[p - 1]
    BY <1>1, <1>3, <1>7 DEF Collected
  <2>2. p \in Parts(k).lines
    BY <1>4, <1>5, <2>1, PartNext
  <2>3. entries[p].kind = "part"
    BY <1>4, <1>7, <2>2 DEF Broken
  <2>4. entries[p].value # <<>> /\ entries[p].kind \in {"key", "part"}
    BY <1>2, <2>3, WordsAssumption
  <2>5. Collect(Cut(ValueText(entries[p]), LineLen - Len(kev)))
    BY <1>2, <2>3, Written DEF getkeyadd
  <2>6. ReadsIni' /\ (result' = Running => found' = 2 /\ Collected(k)')
    BY <1>1, <1>3, <1>4, <2>1, <2>4, <2>5, PartCollected
  <2> QED BY <1>1, <1>3, <1>4, <2>6, SearchKept DEF Search
<1> QED BY <1>6, <1>7

LEMMA EndRead ==
  ASSUME TypeInv, Search, EndOfFile, newline = TRUE
  PROVE  ReadsIni'
<1>1. /\ entries' = entries /\ pos = Len(entries) /\ Return(3)
  BY DEF EndOfFile
<1>2. result'.code = 3
  BY <1>1 DEF Return
<1>3. CASE \E h, k \in 1 .. pos : KeyOf(h, k) /\ Collected(k)
  <2>1. PICK h \in 1 .. pos, k \in 1 .. pos : KeyOf(h, k) /\ Collected(k)
    BY <1>3
  <2>2. k \in 1 .. Len(entries)
    BY <1>1
  <2>3. ASSUME ~Broken(k) PROVE Meant(k)'
    <3>1. JoinedTo(k, Len(entries)) /\ entries[k].value # <<>>
      BY <1>1, <2>1, <2>3 DEF Collected
    <3>2. Parts(k).whole = FALSE
      BY <2>2, <3>1, AllJoined
    <3>3. Parts(k)' = Parts(k) /\ entries'[k].value # <<>> /\ 3 \in {0, 3, 4}
      BY <1>1, <3>1, SearchKept
    <3> QED BY <1>2, <3>2, <3>3, Zenon DEF Meant
  <2> QED BY <1>1, <2>1, <2>3, KeyMeant
<1>4. CASE \/ \A i \in 1 .. pos : ~Is(i, "section", Section)
           \/ \E h \in 1 .. pos : HeadOf(h) /\ \A i \in h + 1 .. pos : ~Is(i, "key", KeyName)
  BY <1>1, <1>2, <1>4, NoKeyMeant
<1> QED BY <1>3, <1>4 DEF Search

LEMMA SearchInit == Init => SearchInv
<1> SUFFICES ASSUME Init PROVE SearchInv
  OBVIOUS
<1>1. found = 0 /\ pos = 0 /\ result = Running
  BY DEF Init
<1>2. \A i \in 1 .. pos : ~Is(i, "section", Section)
  BY <1>1
<1> QED BY <1>1, <1>2 DEF SearchInv, Search, ReadsIni

LEMMA SearchStep == TypeInv /\ SearchInv /\ [Next]_vars => SearchInv'
<1> SUFFICES ASSUME TypeInv, SearchInv, [Next]_vars PROVE SearchInv'
  OBVIOUS
<1>1. CASE Read
  <2>1. /\ result = Running /\ pos < Len(entries) /\ pos' = pos + 1
        /\ entries' = entries /\ newline' = newline
    BY <1>1 DEF Read
  <2> DEFINE p == pos + 1
             s == Line(p)
  <2>2. IF isremark(s) THEN Skip
        ELSE \/ /\ found = 0 /\ found' = (IF getsection(s) = Section THEN 1 ELSE 0)
                /\ UNCHANGED <<kev, result>>
             \/ found = 1 /\ IF getkeyname(s) = KeyName THEN Collect(getkeyvalue(s)) ELSE Skip
             \/ found = 2 /\ Collect(getkeyadd(s))
    <3>1. Line(pos') = s
      BY <2>1
    <3> HIDE DEF s
    <3> QED BY <1>1, <3>1 DEF Read
  <2>3. CASE newline # TRUE
    <3>1. newline = FALSE /\ newline' = FALSE
      BY <2>1, <2>3 DEF TypeInv
    <3> QED BY <3>1 DEF SearchInv, ReadsIni
  <2>4. CASE newline = TRUE
    <3>1. Search
      BY <2>1, <2>4 DEF SearchInv
    <3>2. p \in 1 .. Len(entries)
      BY <2>1 DEF TypeInv, TypeOK
    <3>3. entries[p] \in Entries /\ s = Rendered(entries[p])
      BY <2>4, <3>2, LineIs
    <3>4. isremark(s) <=> entries[p].kind = "remark"
      BY <3>3, LinesReadBack
    <3>5. CASE entries[p].kind = "remark"
      <4>1. UNCHANGED <<found, kev, result>>
        BY <2>2, <3>4, <3>5 DEF Skip
      <4>2. Search'
        BY <2>1, <3>1, <3>5, <4>1, RemarkRead
      <4> QED BY <2>1, <4>1, <4>2 DEF SearchInv, ReadsIni
    <3>6. CASE entries[p].kind # "remark"
      <4>1. CASE found = 0
        <5>1. found' = (IF getsection(s) = Section THEN 1 ELSE 0) /\ result' = result
          <6> HIDE DEF s
          <6> QED BY <2>2, <3>4, <3>6, <4>1
        <5>2. Search'
          BY <2>1, <2>4, <3>1, <3>6, <4>1, <5>1, SectionRead
        <5> QED BY <2>1, <5>1, <5>2 DEF SearchInv, ReadsIni
      <4>2. CASE found = 1
        <5>1. IF getkeyname(s) = KeyName THEN Collect(getkeyvalue(s)) ELSE Skip
          <6> HIDE DEF s
          <6> QED BY <2>2, <3>4, <3>6, <4>2
        <5>2. ReadsIni' /\ (result' = Running => Search')
          BY <2>1, <2>4, <3>1, <3>6, <4>2, <5>1, KeyRead
        <5> QED BY <5>2 DEF SearchInv
      <4>3. CASE found = 2
        <5>1. Collect(getkeyadd(s))
          <6> HIDE DEF s
          <6> QED BY <2>2, <3>4, <3>6, <4>3
        <5>2. ReadsIni' /\ (result' = Running => Search')
          BY <2>1, <2>4, <3>1, <3>6, <4>3, <5>1, RestRead
        <5> QED BY <5>2 DEF SearchInv
      <4>4. found = 0 \/ found = 1 \/ found = 2
        BY DEF TypeInv, TypeOK
      <4> QED BY <4>1, <4>2, <4>3, <4>4
    <3> QED BY <3>5, <3>6
  <2> QED BY <2>3, <2>4
<1>2. CASE EndOfFile
  <2>1. result = Running /\ newline' = newline /\ entries' = entries
    BY <1>2 DEF EndOfFile
  <2>2. CASE newline # TRUE
    <3>1. newline = FALSE /\ newline' = FALSE
      BY <2>1, <2>2 DEF TypeInv
    <3> QED BY <3>1 DEF SearchInv, ReadsIni
  <2>3. CASE newline = TRUE
    <3>1. Search
      BY <2>1, <2>3 DEF SearchInv
    <3>2. ReadsIni'
      BY <1>2, <2>3, <3>1, EndRead
    <3>3. result' # Running
      <4>1. Return(3)
        BY <1>2, <2>3 DEF EndOfFile
      <4> QED BY <4>1 DEF Return, Running
    <3> QED BY <3>2, <3>3 DEF SearchInv
  <2> QED BY <2>2, <2>3
<1>3. CASE UNCHANGED vars
  <2>1. UNCHANGED <<entries, newline, pos, found, kev, result>>
    BY <1>3 DEF vars
  <2>2. ReadsIni' = ReadsIni
    BY <2>1 DEF ReadsIni, Lines, Is, Parts, Meant, Text
  <2>3. Search' = Search
    <3>1. \A k, n : JoinedTo(k, n)' = JoinedTo(k, n)
      BY <2>1 DEF JoinedTo
    <3>2. \A k : Collected(k)' = Collected(k)
      BY <2>1, <3>1, SearchKept DEF Collected
    <3> QED BY <2>1, <3>2, SearchKept DEF Search
  <2> QED BY <2>1, <2>2, <2>3 DEF SearchInv
<1> QED BY <1>1, <1>2, <1>3 DEF Next

(* Reading a file gives what the file says (getconfigstr), for files of    *)
(* any length and names and values of any length: the first key of that    *)
(* name after the first line of that section, and the parts of its value   *)
(* in order, through remarks and blanks, cut to the caller's buffer.       *)
THEOREM ReadsIniAlways == Spec => []ReadsIni
<1>1. SearchInv => ReadsIni
  BY DEF SearchInv
<1> QED BY <1>1, TypeInit, TypeStep, SearchInit, SearchStep, PTL DEF Spec
=============================================================================
