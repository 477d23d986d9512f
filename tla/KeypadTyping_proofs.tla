------------------------ MODULE KeypadTyping_proofs -------------------------
(***************************************************************************)
(* Type correctness of the panel program, for every number of descriptors, *)
(* of messages, keys and connections, and every value the uninitialised    *)
(* locals of CreatServer may hold.                                         *)
(***************************************************************************)
EXTENDS KeypadApp, SequenceTheorems, TLAPS

(* The frames of the actions and their one-line helpers are expanded       *)
(* everywhere.                                                             *)
USE DEF butLcd, butFds, keyLocals, sockLocals, Open, Lock, Unlock, Publish,
        ShowTail, AfterKey, MayLaunch, NextRound

(* The program's labels and the message texts are lines of the display.    *)
LEMMA LineFacts ==
  /\ \A l \in Label : Fixed(l) \in Line
  /\ Blank \in MsgLine
  /\ MsgLine \subseteq Line
  /\ \A i \in 1 .. MaxMsgs : Text(i) \in MsgLine
BY DEF Line, MsgLine, Blank, Label

(* Whatever is shown, on one line or on both, the glass holds lines.       *)
LEMMA ShowTyped ==
  ASSUME lcd \in Line \X Line, NEW l0 \in Line, NEW l1 \in Line
  PROVE  /\ Show(l0, l1) => lcd' \in Line \X Line
         /\ ShowTop(l0) => lcd' \in Line \X Line
         /\ ShowBottom(l1) => lcd' \in Line \X Line
BY DEF Show, ShowTop, ShowBottom

(* The menu, too, is made of lines.                                        *)
LEMMA ShowMenuTyped ==
  ASSUME lcd \in Line \X Line, NEW c, ShowMenu(c)
  PROVE  lcd' \in Line \X Line
BY LineFacts, ShowTyped DEF ShowMenu, Label

(* The initial values have their types.                                    *)
LEMMA InitTyped == Init => TypeOK
<1> SUFFICES ASSUME Init PROVE TypeOK
  OBVIOUS
<1>1. SharedTypeOK
  BY LineFacts, EmptySeq
     DEF Init, SharedInit, SharedTypeOK, Commands, Kinds, Message
<1>2. KeyTypeOK
  BY MaxKeysAssumption
     DEF Init, KeyInitState, KeyTypeOK, Commands, KeyLabels, KeyReads
<1>3. SockTypeOK
  BY LineFacts DEF Init, SockInitState, SockTypeOK, SockLabels, Commands, NoChunk
<1> QED
  BY <1>1, <1>2, <1>3, MaxConnsAssumption, MaxMsgsAssumption DEF Init, TypeOK

(* What recv leaves in the stream is a sequence of messages.               *)
LEMMA RestTyped ==
  ASSUME NEW S, NEW s \in Seq(S), NEW n \in 1 .. Len(s)
  PROVE  SubSeq(s, n + 1, Len(s)) \in Seq(S)
<1>1. Len(s) \in Nat
  BY LenProperties
<1>2. CASE n + 1 <= Len(s)
  BY <1>1, <1>2, SubSeqProperties
<1>3. CASE n + 1 > Len(s)
  BY <1>1, <1>3, SubSeqEmpty, EmptySeq
<1> QED
  BY <1>1, <1>2, <1>3

(* Closing a descriptor leaves a descriptor table.                         *)
LEMMA ClosedTyped ==
  ASSUME NEW t \in [Fd -> Kinds], NEW f
  PROVE  Closed(t, f) \in [Fd -> Kinds]
BY DEF Closed, Kinds

(* Every step of KeyThread1 keeps the types.                               *)
LEMMA KeyTyped == TypeOK /\ KeyStep => TypeOK'
<1> SUFFICES ASSUME TypeOK, KeyStep PROVE TypeOK'
  OBVIOUS
<1> USE DEF KeyAt, Goto
<1>a. SharedTypeOK /\ KeyTypeOK /\ SockTypeOK
  BY DEF TypeOK
<1>b. KeyOnly
  BY DEF KeyStep
<1>c. SockTypeOK' /\ (conns \in 0 .. MaxConns)' /\ (sent \in 0 .. MaxMsgs)'
  BY <1>b DEF KeyOnly, sockVars, opening, clientVars, SockTypeOK, TypeOK
<1>d. lcd \in Line \X Line
  BY <1>a DEF SharedTypeOK
<1> SUFFICES SharedTypeOK' /\ KeyTypeOK'
  BY <1>c DEF TypeOK
<1>1. CASE KInitOk
  <2>1. SharedTypeOK'
    BY <1>1, <1>a, LineFacts
       DEF KInitOk, SharedTypeOK, mailbox, session, peer, Kinds
  <2>2. KeyTypeOK'
    BY <1>1, <1>a
       DEF KInitOk, KeyTypeOK, KeyLabels, menu, reading, demo, lookup
  <2> QED BY <2>1, <2>2
<1>2. CASE KInitFail
  <2>1. SharedTypeOK'
    BY <1>2, <1>a DEF KInitFail, SharedTypeOK, mailbox, session, peer
  <2>2. KeyTypeOK'
    BY <1>2, <1>a
       DEF KInitFail, KeyTypeOK, KeyLabels, menu, reading, demo,
           lookup
  <2> QED BY <2>1, <2>2
<1>3. CASE KPoll
  <2>1. SharedTypeOK'
    BY <1>3, <1>a
       DEF KPoll, SharedTypeOK, shared, mailbox, session, files, peer
  <2>2. KeyTypeOK'
    BY <1>3, <1>a
       DEF KPoll, KeyTypeOK, KeyLabels, menu, reading, demo, lookup,
           SharedTypeOK
  <2> QED BY <2>1, <2>2
<1>4. CASE KDisplayTail
  <2>1. lcd' \in Line \X Line
    BY <1>4, <1>a, <1>d, ShowTyped, LineFacts DEF KDisplayTail, SharedTypeOK
  <2>2. SharedTypeOK'
    BY <1>4, <1>a, <2>1
       DEF KDisplayTail, SharedTypeOK, mailbox, session, files, peer
  <2>3. KeyTypeOK'
    BY <1>4, <1>a
       DEF KDisplayTail, KeyTypeOK, KeyLabels, menu, reading, demo,
           lookup
  <2> QED BY <2>2, <2>3
<1>5. CASE KDisplayCut
  <2>1. SharedTypeOK'
    BY <1>5, <1>a, LineFacts
       DEF KDisplayCut, SharedTypeOK, session, files, peer
  <2>2. KeyTypeOK'
    BY <1>5, <1>a
       DEF KDisplayCut, KeyTypeOK, KeyLabels, menu, reading, demo,
           lookup
  <2> QED BY <2>1, <2>2
<1>6. CASE KDisplayHead
  <2>1. lcd' \in Line \X Line
    BY <1>6, <1>a, <1>d, ShowTyped, LineFacts DEF KDisplayHead, SharedTypeOK
  <2>2. SharedTypeOK'
    BY <1>6, <1>a, <2>1
       DEF KDisplayHead, SharedTypeOK, mailbox, session, files, peer
  <2>3. KeyTypeOK'
    BY <1>6, <1>a
       DEF KDisplayHead, KeyTypeOK, KeyLabels, menu, reading, demo,
           lookup
  <2> QED BY <2>2, <2>3
<1>7. CASE KKey
  <2>1. SharedTypeOK'
    BY <1>7, <1>a
       DEF KKey, SharedTypeOK, shared, mailbox, session, files, peer
  <2>2. KeyTypeOK'
    BY <1>7, <1>a, MaxKeysAssumption
       DEF KKey, KeyTypeOK, KeyLabels, menu, demo, lookup, PassValues,
           Reads, Fresh, Counted, CommandKey, KeyReads, Commands
  <2> QED BY <2>1, <2>2
<1>8. CASE KClear
  <2>1. SharedTypeOK'
    BY <1>8, <1>a DEF KClear, SharedTypeOK, session, files, peer, Commands
  <2>2. KeyTypeOK'
    BY <1>8, <1>a
       DEF KClear, KeyTypeOK, KeyLabels, menu, reading, demo, lookup
  <2> QED BY <2>1, <2>2
<1>9. CASE KOther
  <2>1. SharedTypeOK'
    BY <1>9, <1>a
       DEF KOther, SharedTypeOK, shared, mailbox, session, files, peer
  <2>2. KeyTypeOK'
    BY <1>9, <1>a
       DEF KOther, KeyTypeOK, KeyLabels, menu, reading, demo, lookup
  <2> QED BY <2>1, <2>2
<1>10. CASE KBack
  <2>1. lcd' \in Line \X Line
    BY <1>10, <1>a, <1>d, ShowMenuTyped DEF KBack, Select, Handling
  <2>2. SharedTypeOK'
    BY <1>10, <1>a, <2>1
       DEF KBack, Select, Handling, SharedTypeOK, mailbox, session, files,
           peer
  <2>3. KeyTypeOK'
    BY <1>10, <1>a
       DEF KBack, Select, Handling, KeyTypeOK, KeyLabels, reading, demo,
           lookup
  <2> QED BY <2>2, <2>3
<1>11. CASE KUp
  <2>1. lcd' \in Line \X Line
    BY <1>11, <1>a, <1>d, ShowMenuTyped DEF KUp, Select, Handling
  <2>2. SharedTypeOK'
    BY <1>11, <1>a, <2>1
       DEF KUp, Select, Handling, SharedTypeOK, mailbox, session,
           files, peer
  <2>3. KeyTypeOK'
    BY <1>11, <1>a
       DEF KUp, Select, Handling, KeyTypeOK, KeyLabels, reading, demo,
           lookup
  <2> QED BY <2>2, <2>3
<1>12. CASE KDown
  <2>1. lcd' \in Line \X Line
    BY <1>12, <1>a, <1>d, ShowMenuTyped DEF KDown, Select, Handling
  <2>2. SharedTypeOK'
    BY <1>12, <1>a, <2>1
       DEF KDown, Select, Handling, SharedTypeOK, mailbox, session,
           files, peer
  <2>3. KeyTypeOK'
    BY <1>12, <1>a
       DEF KDown, Select, Handling, KeyTypeOK, KeyLabels, reading,
           demo, lookup
  <2> QED BY <2>2, <2>3
<1>13. CASE KOkDemo
  <2>1. lcd' \in Line \X Line
    BY <1>13, <1>a, <1>d, ShowTyped, LineFacts DEF KOkDemo, Handling, Label
  <2>2. SharedTypeOK'
    BY <1>13, <1>a, <2>1
       DEF KOkDemo, Handling, SharedTypeOK, mailbox, session, files,
           peer
  <2>3. KeyTypeOK'
    BY <1>13, <1>a
       DEF KOkDemo, Handling, KeyTypeOK, KeyLabels, reading, demo,
           lookup
  <2> QED BY <2>2, <2>3
<1>14. CASE KReboot
  <2>1. SharedTypeOK'
    BY <1>14, <1>a
       DEF KReboot, Handling, SharedTypeOK, mailbox, session, files,
           peer
  <2>2. KeyTypeOK'
    BY <1>14, <1>a
       DEF KReboot, Handling, KeyTypeOK, KeyLabels, reading, demo,
           lookup
  <2> QED BY <2>1, <2>2
<1>15. CASE KMenuKillCkt
  <2>1. SharedTypeOK'
    BY <1>15, <1>a
       DEF KMenuKillCkt, Handling, SharedTypeOK, shared, mailbox,
           session, files, peer
  <2>2. KeyTypeOK'
    BY <1>15, <1>a
       DEF KMenuKillCkt, Handling, KeyTypeOK, KeyLabels, menu,
           reading, lookup
  <2> QED BY <2>1, <2>2
<1>16. CASE KMenuKillMx
  <2>1. lcd' \in Line \X Line
    BY <1>16, <1>a, <1>d, ShowMenuTyped DEF KMenuKillMx
  <2>2. SharedTypeOK'
    BY <1>16, <1>a, <2>1
       DEF KMenuKillMx, SharedTypeOK, mailbox, session, files, peer
  <2>3. KeyTypeOK'
    BY <1>16, <1>a DEF KMenuKillMx, KeyTypeOK, KeyLabels, reading, lookup
  <2> QED BY <2>2, <2>3
<1>17. CASE KSocketOk
  <2>1. SharedTypeOK'
    BY <1>17, <1>a DEF KSocketOk, SharedTypeOK, mailbox, session, peer, Kinds
  <2>2. KeyTypeOK'
    BY <1>17, <1>a DEF KSocketOk, KeyTypeOK, KeyLabels, menu, reading, demo
  <2> QED BY <2>1, <2>2
<1>18. CASE KSocketFail
  <2>1. SharedTypeOK'
    BY <1>18, <1>a
       DEF KSocketFail, KGot, SharedTypeOK, shared, mailbox, session,
           files, peer
  <2>2. KeyTypeOK'
    BY <1>18, <1>a
       DEF KSocketFail, KGot, KeyTypeOK, KeyLabels, menu, reading,
           demo
  <2> QED BY <2>1, <2>2
<1>19. CASE KIoctlOk
  <2>1. lcd' \in Line \X Line
    BY <1>19, <1>a, <1>d, ShowTyped, LineFacts DEF KIoctlOk, KGot, Label
  <2>2. SharedTypeOK'
    BY <1>19, <1>a, <2>1
       DEF KIoctlOk, KGot, SharedTypeOK, mailbox, session, files, peer
  <2>3. KeyTypeOK'
    BY <1>19, <1>a
       DEF KIoctlOk, KGot, KeyTypeOK, KeyLabels, menu, reading, demo
  <2> QED BY <2>2, <2>3
<1>20. CASE KIoctlFail
  <2>1. SharedTypeOK'
    BY <1>20, <1>a
       DEF KIoctlFail, KGot, SharedTypeOK, shared, mailbox, session,
           files, peer
  <2>2. KeyTypeOK'
    BY <1>20, <1>a
       DEF KIoctlFail, KGot, KeyTypeOK, KeyLabels, menu, reading, demo
  <2> QED BY <2>1, <2>2
<1>21. CASE KStartCkt
  <2>1. SharedTypeOK'
    BY <1>21, <1>a
       DEF KStartCkt, SharedTypeOK, shared, mailbox, session, files,
           peer
  <2>2. KeyTypeOK'
    BY <1>21, <1>a DEF KStartCkt, KeyTypeOK, KeyLabels, menu, reading, lookup
  <2> QED BY <2>1, <2>2
<1>22. CASE KStartMx
  <2>1. SharedTypeOK'
    BY <1>22, <1>a
       DEF KStartMx, SharedTypeOK, shared, mailbox, session, files,
           peer
  <2>2. KeyTypeOK'
    BY <1>22, <1>a DEF KStartMx, KeyTypeOK, KeyLabels, menu, reading, lookup
  <2> QED BY <2>1, <2>2
<1>23. CASE KRequest
  <2>1. SharedTypeOK'
    BY <1>23, <1>a DEF KRequest, SharedTypeOK, mailbox, session, files, peer
  <2>2. KeyTypeOK'
    BY <1>23, <1>a
       DEF KRequest, KeyTypeOK, KeyLabels, menu, reading, demo, lookup
  <2> QED BY <2>1, <2>2
<1>24. CASE KTail
  <2>1. lcd' \in Line \X Line
    BY <1>24, <1>a, <1>d, ShowMenuTyped DEF KTail
  <2>2. SharedTypeOK'
    BY <1>24, <1>a, <2>1
       DEF KTail, SharedTypeOK, mailbox, session, files, peer
  <2>3. KeyTypeOK'
    BY <1>24, <1>a DEF KTail, KeyTypeOK, KeyLabels, reading, demo, lookup
  <2> QED BY <2>2, <2>3
<1> QED
  BY <1>1, <1>2, <1>3, <1>4, <1>5, <1>6, <1>7, <1>8, <1>9, <1>10, <1>11,
     <1>12, <1>13, <1>14, <1>15, <1>16, <1>17, <1>18, <1>19, <1>20, <1>21,
     <1>22, <1>23, <1>24
     DEF KeyStep

(* Every step of SocketThread2 keeps the types.                            *)
LEMMA SockTyped == TypeOK /\ SockStep => TypeOK'
<1> SUFFICES ASSUME TypeOK, SockStep PROVE TypeOK'
  OBVIOUS
<1> USE DEF SockAt, SGoto
<1>a. SharedTypeOK /\ KeyTypeOK /\ SockTypeOK
  BY DEF TypeOK
<1>b. SockOnly
  BY DEF SockStep
<1>c. KeyTypeOK' /\ (conns \in 0 .. MaxConns)' /\ (sent \in 0 .. MaxMsgs)'
  BY <1>b DEF SockOnly, keyVars, menu, reading, demo, lookup, clientVars, KeyTypeOK, TypeOK
<1> SUFFICES SharedTypeOK' /\ SockTypeOK'
  BY <1>c DEF TypeOK
<1>1. CASE STop
  <2>1. SharedTypeOK'
    BY <1>1, <1>a
       DEF STop, SharedTypeOK, shared, mailbox, session, files, peer
  <2>2. SockTypeOK'
    BY <1>1, <1>a DEF STop, SockTypeOK, SockLabels, opening, shared
  <2> QED BY <2>1, <2>2
<1>2. CASE SSocketOk
  <2>1. SharedTypeOK'
    BY <1>2, <1>a DEF SSocketOk, SharedTypeOK, mailbox, session, peer, Kinds
  <2>2. SockTypeOK'
    BY <1>2, <1>a DEF SSocketOk, SockTypeOK, SockLabels, opening
  <2> QED BY <2>1, <2>2
<1>3. CASE SSocketFail
  <2>1. SharedTypeOK'
    BY <1>3, <1>a
       DEF SSocketFail, SharedTypeOK, shared, mailbox, session, files,
           peer
  <2>2. SockTypeOK'
    BY <1>3, <1>a
       DEF SSocketFail, SockTypeOK, SockLabels, opening,
           shared
  <2> QED BY <2>1, <2>2
<1>4. CASE SIoctlOk
  <2>1. SharedTypeOK'
    BY <1>4, <1>a, LineFacts, ShowTyped
       DEF SIoctlOk, SharedTypeOK, mailbox, session, files, peer,
           Label
  <2>2. SockTypeOK'
    BY <1>4, <1>a DEF SIoctlOk, SockTypeOK, SockLabels, opening
  <2> QED BY <2>1, <2>2
<1>5. CASE SIoctlFail
  <2>1. SharedTypeOK'
    BY <1>5, <1>a
       DEF SIoctlFail, SharedTypeOK, shared, mailbox, session, files,
           peer
  <2>2. SockTypeOK'
    BY <1>5, <1>a
       DEF SIoctlFail, SockTypeOK, SockLabels, opening,
           shared
  <2> QED BY <2>1, <2>2
<1>6. CASE SCreate
  <2>1. PICK c, s \in Garbage :
              IF c > 0 /\ s > 0
              THEN fds' = Closed(Closed(fds, c), s) /\ PeerAfterClosing({c, s})
              ELSE UNCHANGED <<fds, peer>>
    BY <1>6 DEF SCreate
  <2>2. fds' \in [Fd -> Kinds]
    BY <1>a, <2>1, ClosedTyped DEF SharedTypeOK
  <2>3. SharedTypeOK'
    BY <1>6, <1>a, <2>1, <2>2, EmptySeq
       DEF SCreate, PeerAfterClosing, SharedTypeOK, mailbox, session, peer
  <2>4. SockTypeOK'
    BY <1>6, <1>a DEF SCreate, SockTypeOK, SockLabels, opening
  <2> QED BY <2>3, <2>4
<1>7. CASE SListenOk
  <2>1. SharedTypeOK'
    BY <1>7, <1>a DEF SListenOk, SharedTypeOK, mailbox, session, peer, Kinds
  <2>2. SockTypeOK'
    BY <1>7, <1>a DEF SListenOk, SockTypeOK, SockLabels
  <2> QED BY <2>1, <2>2
<1>8. CASE SBindFail
  <2>1. SharedTypeOK'
    BY <1>8, <1>a DEF SBindFail, SharedTypeOK, mailbox, session, peer, Kinds
  <2>2. SockTypeOK'
    BY <1>8, <1>a DEF SBindFail, SockTypeOK, SockLabels
  <2> QED BY <2>1, <2>2
<1>9. CASE SListenFail
  <2>1. SharedTypeOK'
    BY <1>9, <1>a
       DEF SListenFail, SharedTypeOK, shared, mailbox, session, files,
           peer
  <2>2. SockTypeOK'
    BY <1>9, <1>a
       DEF SListenFail, SockTypeOK, SockLabels, opening,
           shared
  <2> QED BY <2>1, <2>2
<1>10. CASE SAcceptOk
  <2>1. SharedTypeOK'
    BY <1>10, <1>a DEF SAcceptOk, SharedTypeOK, mailbox, session, peer, Kinds
  <2>2. SockTypeOK'
    BY <1>10, <1>a DEF SAcceptOk, SockTypeOK, SockLabels
  <2> QED BY <2>1, <2>2
<1>11. CASE SAcceptFail
  <2>1. SharedTypeOK'
    BY <1>11, <1>a, EmptySeq
       DEF SAcceptFail, SharedTypeOK, mailbox, session, files
  <2>2. SockTypeOK'
    BY <1>11, <1>a DEF SAcceptFail, SockTypeOK, SockLabels, opening
  <2> QED BY <2>1, <2>2
<1>12. CASE SPublish
  <2>1. SharedTypeOK'
    BY <1>12, <1>a
       DEF SPublish, SharedTypeOK, mailbox, files, peer, SockTypeOK
  <2>2. SockTypeOK'
    BY <1>12, <1>a DEF SPublish, SockTypeOK, SockLabels, opening
  <2> QED BY <2>1, <2>2
<1>13. CASE SServed
  <2>1. SharedTypeOK'
    BY <1>13, <1>a DEF SServed, SharedTypeOK, mailbox, session, files, peer
  <2>2. SockTypeOK'
    BY <1>13, <1>a DEF SServed, SockTypeOK, SockLabels, opening
  <2> QED BY <2>1, <2>2
<1>14. CASE SRecv
  <2>1. PICK n \in 1 .. Len(stream), c \in Commands, t \in MsgLine :
              buf' = [cmd |-> c, text |-> t] /\ stream' = SubSeq(stream, n + 1, Len(stream))
    BY <1>14 DEF SRecv
  <2>2. stream \in Seq(Message)
    BY <1>a DEF SharedTypeOK
  <2>3. stream' \in Seq(Message)
    BY <2>1, <2>2, RestTyped
  <2>4. SharedTypeOK'
    BY <1>14, <1>a, <2>3 DEF SRecv, SharedTypeOK, mailbox, session, files
  <2>5. SockTypeOK'
    BY <1>14, <1>a, <2>1 DEF SRecv, SockTypeOK, SockLabels, opening
  <2> QED BY <2>4, <2>5
<1>15. CASE SRecvEnd
  <2>1. SharedTypeOK'
    BY <1>15, <1>a
       DEF SRecvEnd, SharedTypeOK, shared, mailbox, session, files,
           peer
  <2>2. SockTypeOK'
    BY <1>15, <1>a
       DEF SRecvEnd, SockTypeOK, SockLabels, opening, shared
  <2> QED BY <2>1, <2>2
<1>16. CASE SStoreCmd
  <2>1. SharedTypeOK'
    BY <1>16, <1>a
       DEF SStoreCmd, SharedTypeOK, session, files, peer, SockTypeOK
  <2>2. SockTypeOK'
    BY <1>16, <1>a DEF SStoreCmd, SockTypeOK, SockLabels, opening
  <2> QED BY <2>1, <2>2
<1>17. CASE SBlankText
  <2>1. SharedTypeOK'
    BY <1>17, <1>a, LineFacts
       DEF SBlankText, SharedTypeOK, session, files, peer
  <2>2. SockTypeOK'
    BY <1>17, <1>a DEF SBlankText, SockTypeOK, SockLabels, opening
  <2> QED BY <2>1, <2>2
<1>18. CASE SCopyText
  <2>1. SharedTypeOK'
    BY <1>18, <1>a
       DEF SCopyText, SharedTypeOK, session, files, peer, SockTypeOK
  <2>2. SockTypeOK'
    BY <1>18, <1>a DEF SCopyText, SockTypeOK, SockLabels, opening
  <2> QED BY <2>1, <2>2
<1>19. CASE SEcho
  <2>1. SharedTypeOK'
    BY <1>19, <1>a DEF SEcho, SharedTypeOK, mailbox, session, files
  <2>2. SockTypeOK'
    BY <1>19, <1>a DEF SEcho, SockTypeOK, SockLabels, opening
  <2> QED BY <2>1, <2>2
<1>20. CASE SEchoError
  <2>1. SharedTypeOK'
    BY <1>20, <1>a
       DEF SEchoError, SharedTypeOK, shared, mailbox, session, files,
           peer
  <2>2. SockTypeOK'
    BY <1>20, <1>a
       DEF SEchoError, SockTypeOK, SockLabels, opening,
           shared
  <2> QED BY <2>1, <2>2
<1>21. CASE SEchoSigpipe
  <2>1. SharedTypeOK'
    BY <1>21, <1>a
       DEF SEchoSigpipe, SharedTypeOK, mailbox, session, files, peer
  <2>2. SockTypeOK'
    BY <1>21, <1>a DEF SEchoSigpipe, SockTypeOK, SockLabels, opening
  <2> QED BY <2>1, <2>2
<1>22. CASE SCloseClient
  <2>1. SharedTypeOK'
    BY <1>22, <1>a, EmptySeq, ClosedTyped
       DEF SCloseClient, SharedTypeOK, mailbox, session, peer, SClose,
           PeerAfterClosing
  <2>2. SockTypeOK'
    BY <1>22, <1>a DEF SCloseClient, SockTypeOK, SockLabels, opening
  <2> QED BY <2>1, <2>2
<1>23. CASE SCloseServer
  <2>1. SharedTypeOK'
    BY <1>23, <1>a, EmptySeq, ClosedTyped
       DEF SCloseServer, SharedTypeOK, mailbox, session, peer, SClose,
           PeerAfterClosing
  <2>2. SockTypeOK'
    BY <1>23, <1>a DEF SCloseServer, SockTypeOK, SockLabels, opening
  <2> QED BY <2>1, <2>2
<1> QED
  BY <1>1, <1>2, <1>3, <1>4, <1>5, <1>6, <1>7, <1>8, <1>9, <1>10, <1>11,
     <1>12, <1>13, <1>14, <1>15, <1>16, <1>17, <1>18, <1>19, <1>20, <1>21,
     <1>22, <1>23
     DEF SockStep

(* Every step of the client keeps the types.                               *)
LEMMA ClientTyped == TypeOK /\ Client => TypeOK'
<1> SUFFICES ASSUME TypeOK, Client PROVE TypeOK'
  OBVIOUS
<1>a. SharedTypeOK /\ KeyTypeOK /\ SockTypeOK
  BY DEF TypeOK
<1>b. UNCHANGED <<keyVars, sockVars>>
  BY DEF Client, ClientConnect, ClientSend, ClientLeave
<1>c. KeyTypeOK' /\ SockTypeOK'
  BY <1>a, <1>b
     DEF keyVars, menu, reading, demo, lookup, sockVars, opening,
         KeyTypeOK, SockTypeOK
<1>1. CASE ClientConnect
  BY <1>1, <1>a, <1>c, MaxConnsAssumption
     DEF ClientConnect, TypeOK, SharedTypeOK, mailbox, session, files
<1>2. CASE ClientSend
  <2>1. PICK c \in Sent : stream' = Append(stream, [cmd |-> c, id |-> sent + 1])
    BY <1>2 DEF ClientSend
  <2>2. [cmd |-> c, id |-> sent + 1] \in Message
    BY <1>2, SentAssumption, MaxMsgsAssumption DEF ClientSend, Message, TypeOK
  <2>3. stream' \in Seq(Message)
    BY <2>1, <2>2, <1>a, AppendProperties DEF SharedTypeOK
  <2> QED
    BY <1>2, <1>a, <1>c, <2>3, MaxMsgsAssumption
       DEF ClientSend, TypeOK, SharedTypeOK, mailbox, session, files
<1>3. CASE ClientLeave
  BY <1>3, <1>a, <1>c
     DEF ClientLeave, TypeOK, SharedTypeOK, mailbox, session, files, clientVars
<1> QED
  BY <1>1, <1>2, <1>3 DEF Client

(* So does a step that changes nothing.                                    *)
LEMMA StutterTyped == TypeOK /\ UNCHANGED vars => TypeOK'
BY DEF TypeOK, SharedTypeOK, KeyTypeOK, SockTypeOK, vars, shared, mailbox,
       files, session, peer, keyVars, menu, reading, demo, lookup, sockVars,
       opening, clientVars

(* Every variable keeps its type in every behaviour.                       *)
THEOREM TypeCorrect == Spec => []TypeOK
<1>1. Init => TypeOK
  BY InitTyped
<1>2. TypeOK /\ [Next]_vars => TypeOK'
  BY KeyTyped, SockTyped, ClientTyped, StutterTyped DEF Next, Gone
<1> QED
  BY <1>1, <1>2, PTL DEF Spec
=============================================================================
