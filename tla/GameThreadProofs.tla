-------------------------- MODULE GameThreadProofs --------------------------
(* The safety of one game, for every board, every set of MOVEs and every     *)
(* bound on the inboxes: one inductive invariant, from which the invariants  *)
(* of GameThread, its action property and the refinement of NimGame follow.  *)
EXTENDS GameThread, TLAPS

\* What the thread's position says of its locals and of what it has done: while
\* it plays nothing is decided, closed or out of date; only a game without a
\* winner closes a socket before the end; OVER is not said before the end.
Phase ==
    /\ Playing => /\ winner = 0 /\ reason = ""
                  /\ boardStr = piles
                  /\ \A p \in Player : closes[p] = 0
    /\ pc # "done" => \A p \in Player : closes[p] <= 1
    /\ pc = "end" => \A p \in Player : closes[p] > 0 => winner = 0
    /\ pc # "start" => \A p \in Player : told[p] # <<>>
    /\ Playing \/ pc = "end" => \A p \in Player : ~SaidOver(p)

Conduct == Phase /\ ViewsCurrent /\ VerdictIsReal /\ VerdictAgreed

IInv == TypeOK /\ Conduct

------------------------------------------------------------------------------
\* A legal move takes its stones from the board and leaves a board (231).
LEMMA RemoveBoard ==
    ASSUME NEW b \in Board, NEW i, NEW n \in Int, Legal(b, i, n)
    PROVE  /\ Remove(b, i, n) \in Board
           /\ Stones(Remove(b, i, n)) = Stones(b) - n
           /\ Stones(b) \in Nat /\ Stones(Remove(b, i, n)) \in Nat
<1>1. i \in Pile /\ n \in 1..b[i]
  BY DEF Legal, Board, Pile
<1>2. /\ Remove(b, i, n) \in Board
      /\ \A j \in Pile : Remove(b, i, n)[j] = IF j = i THEN b[i] - n ELSE b[j]
  BY <1>1 DEF Remove, Board, Pile
<1>3. Stones(Remove(b, i, n)) = Stones(b) - n
  BY <1>1, <1>2 DEF Stones, Pile, Board
<1>4. Stones(b) \in Nat /\ Stones(Remove(b, i, n)) \in Nat
  BY <1>2 DEF Stones, Board, Pile
<1> QED
  BY <1>2, <1>3, <1>4

\* What the thread sends is of the kinds it may send.
LEMMA SentTypes ==
    /\ \A p \in Player : NameMsg(p) \in Sent
    /\ \A p \in Player, b \in Board : PlayMsg(p, b) \in Sent
    /\ \A p \in Player, b \in Board, r \in {"", "Forfeit"} : OverMsg(p, b, r) \in Sent
    /\ \A code \in {10, 31, 32, 33} : FailMsg(code) \in Sent
  BY DEF NameMsg, PlayMsg, OverMsg, FailMsg, Sent

\* The kinds of the messages.
LEMMA SentKinds ==
    /\ \A p : NameMsg(p).kind = "NAME"
    /\ \A p, b : PlayMsg(p, b).kind = "PLAY"
    /\ \A code : FailMsg(code).kind = "FAIL" /\ FailMsg(code).code = code
  BY DEF NameMsg, PlayMsg, FailMsg

\* One and two messages.
LEMMA OneMessage ==
    ASSUME NEW t, NEW a, t = <<a>>
    PROVE  t # <<>> /\ Len(t) = 1 /\ t[1] = a /\ t[Len(t)] = a
  OBVIOUS

\* And two.
LEMMA TwoMessages ==
    ASSUME NEW t, NEW a, NEW b, t = <<a, b>>
    PROVE  t # <<>> /\ Len(t) = 2 /\ t[1] = a /\ t[2] = b /\ t[Len(t)] = b
  OBVIOUS

\* They are sequences over what the messages are in.
LEMMA MessagesType ==
    ASSUME NEW S, NEW a \in S, NEW b \in S
    PROVE  <<a>> \in Seq(S) /\ <<a, b>> \in Seq(S)
  OBVIOUS

\* Reading a message leaves an inbox of messages.
LEMMA ConsumeTypes ==
    ASSUME NEW p \in Player, inbox \in [Player -> Seq(Msg)], Consume(p)
    PROVE  inbox' \in [Player -> Seq(Msg)]
  BY DEF Consume

\* A game begins in the invariant.
LEMMA InitIInv == Init => IInv
<1> SUFFICES ASSUME Init PROVE IInv
  OBVIOUS
<1>1. Start \in Board /\ Stones(Start) \in Nat /\ Stones(Start) # 0
  BY StartAssumption DEF Board, Pile, Stones
<1>2. TypeOK
  <2>1. <<>> \in Seq(Msg) /\ <<>> \in Seq(Sent) /\ 0 \in 0..2
    OBVIOUS
  <2>2. inbox \in [Player -> Seq(Msg)]
    BY <2>1 DEF Init
  <2>3. told \in [Player -> Seq(Sent)]
    BY <2>1 DEF Init
  <2>4. gone \in [Player -> BOOLEAN]
    BY DEF Init
  <2>5. closes \in [Player -> 0..2]
    BY <2>1 DEF Init
  <2> QED
    BY <1>1, <2>2, <2>3, <2>4, <2>5 DEF Init, TypeOK, Player
<1>3. Phase
  <2>1. \A p \in Player : told[p] = <<>> /\ closes[p] = 0
    BY DEF Init
  <2>2. pc = "start" /\ winner = 0 /\ reason = "" /\ boardStr = piles
    BY DEF Init
  <2>3. \A p \in Player : closes[p] <= 1
    BY <2>1
  <2>4. \A p \in Player : ~SaidOver(p)
    BY <2>1 DEF SaidOver
  <2> QED
    BY <2>1, <2>2, <2>3, <2>4 DEF Phase
<1>4. ViewsCurrent /\ VerdictAgreed
  BY DEF Init, ViewsCurrent, VerdictAgreed
<1>5. VerdictIsReal
  BY <1>1 DEF Init, VerdictIsReal
<1> QED
  BY <1>2, <1>3, <1>4, <1>5 DEF IInv, Conduct
------------------------------------------------------------------------------
\* Phase while the thread plays, and when it leaves the loop with a winner.
LEMMA PlayingPhase ==
    ASSUME Phase, Playing
    PROVE  /\ winner = 0 /\ reason = "" /\ boardStr = piles
           /\ \A p \in Player : closes[p] = 0 /\ ~SaidOver(p)
           /\ pc # "start" => \A p \in Player : told[p] # <<>>
  BY DEF Phase

\* Going to the end of the game: nobody is closed, OVER is not yet said.
LEMMA EndPhase ==
    ASSUME Phase, Playing, pc # "start", pc' = "end", UNCHANGED <<closes, told>>
    PROVE  Phase'
<1>1. /\ \A p \in Player : closes'[p] = 0 /\ told'[p] # <<>>
      /\ \A p \in Player : ~SaidOver(p)'
  BY PlayingPhase DEF SaidOver
<1>2. \A p \in Player : closes'[p] <= 1 /\ ~(closes'[p] > 0)
  BY <1>1
<1> QED
  BY <1>1, <1>2 DEF Phase, Playing

\* The steps that tell nobody anything and decide nothing.
LEMMA SilentStep ==
    ASSUME IInv, Playing, pc # "start",
           pc' \in {"poll", "idle", "active", "end"},
           UNCHANGED <<piles, turn, boardStr, winner, reason, gone, told, closes>>
    PROVE  Conduct'
<1>1. Phase /\ ViewsCurrent /\ VerdictIsReal /\ pc \in {"poll", "idle", "active"}
  BY DEF IInv, Conduct, Playing
<1>2. \A p \in Player : SaidOver(p)' <=> SaidOver(p)
  BY DEF SaidOver
<1>3. Phase'
  BY <1>1, <1>2 DEF Phase, Playing
<1>4. ViewsCurrent'
  BY <1>1 DEF ViewsCurrent, PlayMsg
<1>5. VerdictIsReal' /\ VerdictAgreed'
  BY <1>1 DEF VerdictIsReal, VerdictAgreed
<1> QED
  BY <1>3, <1>4, <1>5 DEF Conduct

\* The clients decide nothing either, and a client that has left stays gone.
LEMMA ClientStep ==
    ASSUME IInv, UNCHANGED <<thread, board, told, closes>>,
           \A p \in Player : gone[p] => gone'[p]
    PROVE  Conduct'
<1>1. TypeOK /\ Phase /\ ViewsCurrent /\ VerdictIsReal /\ VerdictAgreed
  BY DEF IInv, Conduct
<1>2. \A p \in Player : SaidOver(p)' <=> SaidOver(p)
  BY DEF SaidOver
<1>3. Phase'
  BY <1>1, <1>2 DEF Phase, Playing, thread, board
<1>4. ViewsCurrent'
  BY <1>1 DEF ViewsCurrent, PlayMsg, thread, board
<1>5. VerdictIsReal'
  BY <1>1 DEF VerdictIsReal, thread, board, TypeOK, Other, Player
<1>6. VerdictAgreed'
  BY <1>1, <1>2 DEF VerdictAgreed, OverMsg, thread, board
<1> QED
  BY <1>3, <1>4, <1>5, <1>6 DEF Conduct

\* Sending the NAMEs and the first PLAY (nimd.c 144-159).
LEMMA BeginStep ==
    ASSUME IInv, Begin
    PROVE  Conduct'
<1>1. TypeOK /\ Phase /\ VerdictIsReal /\ Playing
  BY DEF IInv, Conduct, Begin, Playing
<1>2. /\ pc' = "poll" /\ boardStr = piles
      /\ UNCHANGED <<piles, turn, boardStr, winner, reason, gone, closes>>
      /\ \A p \in Player : told'[p] = <<NameMsg(p), PlayMsg(turn, boardStr)>>
  BY <1>1 DEF Begin, Goto, Enter, board, client, Phase
<1>3. \A p \in Player : /\ told'[p] # <<>> /\ Len(told'[p]) = 2
                        /\ told'[p][Len(told'[p])] = PlayMsg(turn, piles)
                        /\ told'[p][1].kind = "NAME"
  <2> TAKE p \in Player
  <2>1. told'[p] = <<NameMsg(p), PlayMsg(turn, piles)>>
    BY <1>2
  <2> QED
    BY <2>1, TwoMessages, SentKinds
<1>3a. \A p \in Player : ~SaidOver(p)'
  BY <1>3 DEF SaidOver
<1>4. Phase'
  BY <1>1, <1>2, <1>3, <1>3a DEF Phase, Playing
<1>5. ViewsCurrent'
  <2>1. PlayMsg(turn, piles)' = PlayMsg(turn, piles) /\ boardStr' = piles'
    BY <1>2
  <2> QED
    BY <1>3, <2>1 DEF ViewsCurrent
<1>6. VerdictIsReal' /\ VerdictAgreed'
  BY <1>1, <1>2 DEF VerdictIsReal, VerdictAgreed
<1> QED
  BY <1>4, <1>5, <1>6 DEF Conduct

\* A refusal names the turn and the board, and blames who deserves it.
LEMMA RefuseStep ==
    ASSUME IInv, NEW p \in Player, NEW code \in {31, 32, 33},
           pc \in {"idle", "active"}, pc' \in {"poll", "active"},
           p = turn <=> code # 31,
           Refuse(p, code),
           UNCHANGED <<piles, turn, boardStr, winner, reason, gone, closes>>
    PROVE  Conduct'
<1>1. TypeOK /\ Phase /\ ViewsCurrent /\ VerdictIsReal /\ Playing
  BY DEF IInv, Conduct, Playing
<1>2. /\ told'[p] = <<FailMsg(code), PlayMsg(turn, piles)>>
      /\ \A q \in Player : q # p => told'[q] = told[q]
  BY <1>1 DEF Refuse, TypeOK, Phase
<1>2a. /\ Len(told'[p]) = 2 /\ told'[p][Len(told'[p])] = PlayMsg(turn, piles)
      /\ told'[p] # <<>> /\ told'[p][1].kind = "FAIL" /\ told'[p][1].code = code
  BY <1>2, TwoMessages, SentKinds
<1>3. \A q \in Player : told'[q] # <<>> /\ ~SaidOver(q)'
  <2>1. told'[p] # <<>> /\ ~SaidOver(p)'
    BY <1>2a DEF SaidOver
  <2>2. \A q \in Player : told[q] # <<>> /\ ~SaidOver(q)
    BY <1>1 DEF Phase
  <2>3. \A q \in Player : q # p => (SaidOver(q)' <=> SaidOver(q))
    BY <1>2 DEF SaidOver
  <2> QED
    BY <1>2, <2>1, <2>2, <2>3
<1>4. Phase'
  BY <1>1, <1>3 DEF Phase, Playing
<1>5. ViewsCurrent'
  <2>2. \A q \in Player : q # p =>
           /\ Len(told'[q]) = 2 \/ Len(told'[q]) = 1
           /\ told'[q][Len(told'[q])] = PlayMsg(turn, piles)
           /\ told'[q][1].kind = "FAIL" =>
                 told'[q][1].code \in IF q = turn THEN {32, 33} ELSE {31}
    BY <1>1, <1>2 DEF ViewsCurrent
  <2>3. PlayMsg(turn, piles)' = PlayMsg(turn, piles) /\ boardStr' = piles'
    BY <1>1 DEF PlayMsg, Phase
  <2> QED
    BY <1>2a, <2>2, <2>3 DEF ViewsCurrent
<1>6. VerdictIsReal' /\ VerdictAgreed'
  BY <1>1 DEF VerdictIsReal, VerdictAgreed
<1> QED
  BY <1>4, <1>5, <1>6 DEF Conduct

\* A move that leaves stones shows both players the new board.
LEMMA TakeSomeStep ==
    ASSUME IInv, NEW m \in Moves, TakeSome(m)
    PROVE  Conduct'
<1> DEFINE b == Remove(piles, m.pile, m.amount)
<1>1. TypeOK /\ Phase /\ VerdictIsReal /\ Playing /\ pc = "active"
  BY DEF IInv, Conduct, TakeSome, ActiveMove, ReadFrom, Playing
<1>2. /\ pc' = "poll" /\ piles' = b /\ boardStr' = b /\ turn' = Other(turn)
      /\ Stones(b) # 0
      /\ UNCHANGED <<winner, reason, gone, closes>>
      /\ \A p \in Player : told'[p] = <<PlayMsg(Other(turn), b)>>
  <2>3. m.amount \in Int
    BY GameThreadAssumption
  <2>4. Legal(piles, m.pile, m.amount) /\ piles \in Board /\ Stones(b) > 0
    BY <1>1 DEF TakeSome, TypeOK
  <2>1. b \in Board /\ Stones(b) \in Nat /\ Stones(b) > 0
    BY <2>3, <2>4, RemoveBoard
  <2>2. Stones(b) # 0
    BY <2>1
  <2> QED
    BY <2>2 DEF TakeSome, ActiveMove, ReadFrom, Consume, Goto, Enter
<1>3. \A p \in Player : /\ told'[p] # <<>> /\ Len(told'[p]) = 1
                        /\ told'[p][Len(told'[p])] = PlayMsg(Other(turn), b)
                        /\ told'[p][1].kind = "PLAY"
  <2> TAKE p \in Player
  <2> HIDE DEF b
  <2>1. told'[p] = <<PlayMsg(Other(turn), b)>>
    BY <1>2
  <2> QED
    BY <2>1, OneMessage, SentKinds
<1>4. \A p \in Player : ~SaidOver(p)'
  BY <1>3 DEF SaidOver
<1>5. Phase'
  BY <1>1, <1>2, <1>3, <1>4 DEF Phase, Playing
<1>6. ViewsCurrent'
  <2>1. PlayMsg(turn, piles)' = PlayMsg(Other(turn), b) /\ boardStr' = piles'
    BY <1>2
  <2> QED
    BY <1>3, <2>1 DEF ViewsCurrent
<1>7. VerdictIsReal' /\ VerdictAgreed'
  BY <1>1, <1>2 DEF VerdictIsReal, VerdictAgreed, Phase
<1> QED
  BY <1>5, <1>6, <1>7 DEF Conduct

\* The steps that decide the game: the last stone, and a player's leaving.
LEMMA TakeLastStep ==
    ASSUME IInv, NEW m \in Moves, TakeLast(m)
    PROVE  Conduct'
<1>1. TypeOK /\ Phase /\ Playing
  BY DEF IInv, Conduct, TakeLast, ActiveMove, ReadFrom, Playing
<1>2. /\ pc' = "end" /\ Stones(piles') = 0 /\ winner' = turn /\ reason' = ""
      /\ UNCHANGED <<turn, gone, closes, told>>
  BY DEF TakeLast, ActiveMove, ReadFrom, Consume, Enter
<1>4. Phase'
  BY <1>1, <1>2, EndPhase DEF TakeLast, ActiveMove, ReadFrom
<1>5. VerdictIsReal' /\ VerdictAgreed' /\ ViewsCurrent'
  BY <1>2 DEF VerdictIsReal, VerdictAgreed, ViewsCurrent
<1> QED
  BY <1>4, <1>5 DEF Conduct

\* A player that goes loses by forfeit.
LEMMA ForfeitStep ==
    ASSUME IInv, NEW p \in Player, NEW l \in {"idle", "active"}, Forfeit(l, p)
    PROVE  Conduct'
<1>1. TypeOK /\ Phase /\ VerdictIsReal /\ Playing /\ pc # "start"
  BY DEF IInv, Conduct, Forfeit, ReadFrom, Playing
<1>2. /\ pc' = "end" /\ winner' = Other(p) /\ reason' = "Forfeit"
      /\ UNCHANGED <<piles, turn, boardStr, gone, closes, told>>
  BY DEF Forfeit, ReadFrom, Consume, Enter, board
<1>3. gone[p]
  BY DEF Forfeit, ReadFrom, CanRead, Rc
<1>4. Other(p) \in Player /\ Other(Other(p)) = p /\ Other(p) # 0
  BY DEF Other, Player
<1>6. Phase'
  BY <1>1, <1>2, EndPhase
<1>7. Stones(piles) # 0
  <2>1. winner = 0
    BY <1>1, PlayingPhase
  <2>2. turn # 0
    <3>1. turn \in Player
      BY <1>1 DEF TypeOK
    <3> QED
      BY <3>1 DEF Player
  <2> QED
    BY <1>1, <2>1, <2>2 DEF VerdictIsReal
<1>8. VerdictIsReal'
  <2>1. Other(winner)' = p
    BY <1>2, <1>4 DEF Other
  <2> QED
    BY <1>2, <1>3, <1>4, <1>7, <2>1 DEF VerdictIsReal
<1>9. VerdictAgreed' /\ ViewsCurrent'
  BY <1>2 DEF VerdictAgreed, ViewsCurrent
<1> QED
  BY <1>6, <1>8, <1>9 DEF Conduct

\* A framing error ends the game without a winner, and closes early.
LEMMA ExpelStep ==
    ASSUME IInv, NEW p \in Player, NEW l \in {"idle", "active"}, Expel(l, p)
    PROVE  Conduct'
<1>1. TypeOK /\ Phase /\ VerdictIsReal /\ Playing /\ pc # "start"
  BY DEF IInv, Conduct, Expel, ReadFrom, Playing
<1>2. /\ pc' = "end" /\ told' = [told EXCEPT ![p] = <<FailMsg(10)>>]
      /\ closes' = [closes EXCEPT ![p] = @ + 1]
      /\ UNCHANGED <<piles, turn, winner, reason, gone>>
  BY DEF Expel, ReadFrom, Consume, Goto, Enter, board
<1>3. winner = 0 /\ \A q \in Player : closes[q] = 0 /\ told[q] # <<>> /\ ~SaidOver(q)
  BY <1>1, PlayingPhase
<1>4. /\ told'[p] = <<FailMsg(10)>>
      /\ \A q \in Player : q # p => told'[q] = told[q]
  BY <1>1, <1>2 DEF TypeOK
<1>5. told'[p] # <<>> /\ ~SaidOver(p)'
  BY <1>4, OneMessage, SentKinds DEF SaidOver
<1>6. \A q \in Player : told'[q] # <<>> /\ ~SaidOver(q)'
  BY <1>3, <1>4, <1>5 DEF SaidOver
<1>7. \A q \in Player : closes'[q] <= 1
  <2>1. closes \in [Player -> 0..2]
    BY <1>1 DEF TypeOK
  <2>2. \A q \in Player : closes'[q] = 0 \/ closes'[q] = 1
    BY <1>2, <1>3, <2>1
  <2> QED
    BY <2>2
<1>8. Phase'
  BY <1>2, <1>3, <1>6, <1>7 DEF Phase, Playing
<1>9. VerdictIsReal' /\ VerdictAgreed' /\ ViewsCurrent'
  BY <1>1, <1>2 DEF VerdictIsReal, VerdictAgreed, ViewsCurrent
<1> QED
  BY <1>8, <1>9 DEF Conduct

\* OVER is said to both players or to neither.
LEMMA FinishStep ==
    ASSUME IInv, Finish
    PROVE  Conduct'
<1>1. TypeOK /\ Phase /\ VerdictIsReal /\ pc = "end"
  BY DEF IInv, Conduct, Finish
<1>2. pc' = "close" /\ UNCHANGED <<piles, turn, winner, reason, gone, closes>>
  BY DEF Finish, Goto, Enter, client
<1>3. /\ \A p \in Player : told[p] # <<>> /\ ~SaidOver(p)
      /\ \A p \in Player : closes[p] <= 1
  BY <1>1 DEF Phase, Playing
<1>4. VerdictAgreed' /\ \A p \in Player : told'[p] # <<>>
  <2>1. CASE winner = 0
    <3>1. told' = told
      BY <2>1 DEF Finish
    <3>2. \A p \in Player : ~SaidOver(p)'
      BY <1>3, <3>1 DEF SaidOver
    <3> QED
      BY <1>2, <1>3, <2>1, <3>1, <3>2 DEF VerdictAgreed
  <2>2. CASE winner # 0
    <3>1. \A p \in Player : told'[p] = <<OverMsg(winner, piles, reason)>>
      BY <2>2 DEF Finish
    <3>2. OverMsg(winner, piles, reason)' = OverMsg(winner, piles, reason)
      BY <1>2
    <3>3. \A p \in Player : told'[p] # <<>>
      BY <3>1, OneMessage
    <3> QED
      BY <1>2, <2>2, <3>1, <3>2, <3>3 DEF VerdictAgreed
  <2> QED
    BY <2>1, <2>2
<1>5. Phase'
  BY <1>2, <1>3, <1>4 DEF Phase, Playing
<1>6. VerdictIsReal' /\ ViewsCurrent'
  BY <1>1, <1>2 DEF VerdictIsReal, ViewsCurrent
<1> QED
  BY <1>4, <1>5, <1>6 DEF Conduct

\* The closes at the end of the thread (nimd.c 264-265).
LEMMA CloseBothStep ==
    ASSUME IInv, CloseBoth
    PROVE  Conduct'
<1>1. TypeOK /\ Phase /\ VerdictIsReal /\ VerdictAgreed /\ pc = "close"
  BY DEF IInv, Conduct, CloseBoth
<1>2. pc' = "done" /\ UNCHANGED <<piles, turn, winner, reason, gone, told>>
  BY DEF CloseBoth, Goto, Enter, board, client
<1>3. \A p \in Player : told[p] # <<>> /\ (SaidOver(p)' <=> SaidOver(p))
  BY <1>1, <1>2 DEF Phase, SaidOver
<1>4. Phase'
  BY <1>2, <1>3 DEF Phase, Playing
<1>5. VerdictAgreed'
  <2>1. OverMsg(winner, piles, reason)' = OverMsg(winner, piles, reason)
    BY <1>2
  <2> QED
    BY <1>1, <1>2, <1>3, <2>1 DEF VerdictAgreed
<1>6. VerdictIsReal' /\ ViewsCurrent'
  BY <1>1, <1>2 DEF VerdictIsReal, ViewsCurrent
<1> QED
  BY <1>4, <1>5, <1>6 DEF Conduct

------------------------------------------------------------------------------
\* A refusal keeps the types.
LEMMA RefuseType ==
    ASSUME TypeOK, NEW p \in Player, NEW l \in {"idle", "active"},
           NEW k \in {"poll", "active"}, NEW code \in {31, 32, 33},
           ReadFrom(l, p), Refuse(p, code), Goto(k), UNCHANGED <<board, closes>>
    PROVE  TypeOK'
<1>1. inbox' \in [Player -> Seq(Msg)] /\ gone' = gone
  BY ConsumeTypes DEF TypeOK, ReadFrom, Consume
<1>2. told' \in [Player -> Seq(Sent)]
  <2>1. FailMsg(code) \in Sent /\ PlayMsg(turn, boardStr) \in Sent
    BY SentTypes DEF TypeOK
  <2>2. <<FailMsg(code), PlayMsg(turn, boardStr)>> \in Seq(Sent)
    BY <2>1, MessagesType
  <2> QED
    BY <2>2 DEF TypeOK, Refuse
<1> QED
  BY <1>1, <1>2 DEF TypeOK, Goto, Enter, board

\* Every step keeps the types.
LEMMA NextType == IInv /\ [Next]_vars => TypeOK'
<1> SUFFICES ASSUME IInv, [Next]_vars PROVE TypeOK'
  OBVIOUS
<1>t. TypeOK /\ Phase
  BY DEF IInv, Conduct
<1>a. turn \in Player /\ Other(turn) \in Player
  BY <1>t DEF TypeOK, Other, Player
<1>1. CASE Begin
  <2>1. told' \in [Player -> Seq(Sent)]
    <3>1. \A p \in Player : NameMsg(p) \in Sent /\ PlayMsg(turn, boardStr) \in Sent
      BY <1>t, SentTypes DEF TypeOK
    <3>2. \A p \in Player : <<NameMsg(p), PlayMsg(turn, boardStr)>> \in Seq(Sent)
      BY <3>1, MessagesType
    <3> QED
      BY <1>1, <3>2 DEF Begin
  <2> QED
    BY <1>t, <1>1, <2>1 DEF TypeOK, Begin, Goto, Enter, board, client
<1>2. CASE Poll
  BY <1>t, <1>2 DEF TypeOK, Poll, Readable, board, client
<1>3. CASE PollFail
  BY <1>t, <1>3 DEF TypeOK, PollFail, Goto, Enter, board, client
<1>4. CASE IdleQuiet \/ ActiveQuiet
  BY <1>t, <1>4 DEF TypeOK, IdleQuiet, ActiveQuiet, Goto, Enter, board, client
<1>5. ASSUME NEW l \in {"idle", "active"}, NEW p \in Player, Forfeit(l, p)
      PROVE  TypeOK'
  <2>1. inbox' \in [Player -> Seq(Msg)] /\ gone' = gone
    BY <1>t, <1>5, ConsumeTypes DEF TypeOK, Forfeit, ReadFrom, Consume
  <2>2. Other(p) \in Player
    BY DEF Other, Player
  <2> QED
    BY <1>t, <1>5, <2>1, <2>2 DEF TypeOK, Forfeit, Enter, board
<1>6. ASSUME NEW l \in {"idle", "active"}, NEW p \in Player, Expel(l, p)
      PROVE  TypeOK'
  <2>1. inbox' \in [Player -> Seq(Msg)] /\ gone' = gone
    BY <1>t, <1>6, ConsumeTypes DEF TypeOK, Expel, ReadFrom, Consume
  <2>2. told' \in [Player -> Seq(Sent)]
    <3>1. FailMsg(10) \in Sent
      BY SentTypes
    <3>2. <<FailMsg(10)>> \in Seq(Sent)
      BY <3>1, MessagesType
    <3> QED
      BY <1>t, <1>6, <3>2 DEF TypeOK, Expel
  <2>3. closes' \in [Player -> 0..2]
    <3>1. closes \in [Player -> 0..2] /\ closes[p] = 0
      BY <1>t, <1>6, PlayingPhase DEF TypeOK, Expel, ReadFrom, Playing
    <3>2. closes' = [closes EXCEPT ![p] = closes[p] + 1]
      BY <1>6 DEF Expel
    <3>3. closes[p] + 1 \in 0..2
      BY <3>1
    <3> QED
      BY <3>1, <3>2, <3>3
  <2> QED
    BY <1>t, <1>6, <2>1, <2>2, <2>3 DEF TypeOK, Expel, Goto, Enter, board
<1>7. CASE IdleImpatient
  BY <1>t, <1>7, <1>a, RefuseType DEF IdleImpatient, Idle
<1>8. CASE IdleIgnored
  <2>1. inbox' \in [Player -> Seq(Msg)] /\ gone' = gone
    BY <1>t, <1>8, <1>a, ConsumeTypes DEF TypeOK, IdleIgnored, ReadFrom, Consume, Idle
  <2> QED
    BY <1>t, <1>8, <2>1 DEF TypeOK, IdleIgnored, Goto, Enter, board
<1>9. CASE ActiveIgnored
  <2>1. inbox' \in [Player -> Seq(Msg)] /\ gone' = gone
    BY <1>t, <1>9, <1>a, ConsumeTypes DEF TypeOK, ActiveIgnored, ReadFrom, Consume, Active
  <2> QED
    BY <1>t, <1>9, <2>1 DEF TypeOK, ActiveIgnored, Goto, Enter, board
<1>10. ASSUME NEW m \in Moves, BadPile(m) \/ BadAmount(m) PROVE TypeOK'
  BY <1>t, <1>10, <1>a, RefuseType DEF BadPile, BadAmount, ActiveMove, Active
<1>11. ASSUME NEW m \in Moves, TakeSome(m) PROVE TypeOK'
  <2> DEFINE b == Remove(piles, m.pile, m.amount)
  <2>1. inbox' \in [Player -> Seq(Msg)] /\ gone' = gone
    BY <1>t, <1>11, <1>a, ConsumeTypes
       DEF TypeOK, TakeSome, ActiveMove, ReadFrom, Consume, Active
  <2>2. b \in Board
    BY <1>t, <1>11, RemoveBoard, GameThreadAssumption DEF TypeOK, TakeSome
  <2>3. told' \in [Player -> Seq(Sent)]
    <3>1. PlayMsg(Other(turn), b) \in Sent
      BY <1>a, <2>2, SentTypes
    <3>2. <<PlayMsg(Other(turn), b)>> \in Seq(Sent)
      BY <3>1, MessagesType
    <3> QED
      BY <1>11, <3>2 DEF TakeSome
  <2> QED
    BY <1>t, <1>11, <1>a, <2>1, <2>2, <2>3 DEF TypeOK, TakeSome, Goto, Enter
<1>12. ASSUME NEW m \in Moves, TakeLast(m) PROVE TypeOK'
  <2>1. inbox' \in [Player -> Seq(Msg)] /\ gone' = gone
    BY <1>t, <1>12, <1>a, ConsumeTypes
       DEF TypeOK, TakeLast, ActiveMove, ReadFrom, Consume, Active
  <2>2. Remove(piles, m.pile, m.amount) \in Board
    BY <1>t, <1>12, RemoveBoard, GameThreadAssumption DEF TypeOK, TakeLast
  <2> QED
    BY <1>t, <1>12, <2>1, <2>2 DEF TypeOK, TakeLast, Enter
<1>13. CASE Finish
  <2>1. told' \in [Player -> Seq(Sent)]
    <3>1. winner # 0 => OverMsg(winner, piles, reason) \in Sent
      BY <1>t, SentTypes DEF TypeOK
    <3>2. winner # 0 => <<OverMsg(winner, piles, reason)>> \in Seq(Sent)
      BY <3>1, MessagesType
    <3> QED
      BY <1>t, <1>13, <3>2 DEF TypeOK, Finish
  <2> QED
    BY <1>t, <1>13, <2>1 DEF TypeOK, Finish, Goto, Enter, client
<1>14. CASE CloseBoth
  <2>1. closes' \in [Player -> 0..2]
    <3>1. \A p \in Player : closes[p] + 1 \in 0..2
      <4>1. \A p \in Player : closes[p] <= 1
        BY <1>t, <1>14 DEF Phase, CloseBoth
      <4>2. closes \in [Player -> 0..2]
        BY <1>t DEF TypeOK
      <4> QED
        BY <4>1, <4>2
    <3> QED
      BY <1>14, <3>1 DEF CloseBoth
  <2> QED
    BY <1>t, <1>14, <2>1 DEF TypeOK, CloseBoth, Goto, Enter, board, client
<1>15. ASSUME NEW p \in Player, NEW m \in Msg, Send(p, m) \/ Complete(p, m)
       PROVE  TypeOK'
  <2>1. inbox' \in [Player -> Seq(Msg)]
    <3>1. inbox \in [Player -> Seq(Msg)] /\ inbox[p] \in Seq(Msg)
      BY <1>t DEF TypeOK
    <3>2. CASE Send(p, m)
      BY <3>1, <3>2 DEF Send
    <3>3. CASE Complete(p, m)
      <4>1. <<m>> \o Tail(inbox[p]) \in Seq(Msg)
        BY <3>1, <3>3 DEF Complete, Stalled
      <4> QED
        BY <3>1, <3>3, <4>1 DEF Complete
    <3> QED
      BY <1>15, <3>2, <3>3
  <2> QED
    BY <1>t, <1>15, <2>1 DEF TypeOK, Send, Complete, thread, board
<1>16. ASSUME NEW p \in Player, NEW d \in BOOLEAN, Hangup(p, d) PROVE TypeOK'
  <2>1. inbox' \in [Player -> Seq(Msg)] /\ gone' \in [Player -> BOOLEAN]
    <3>1. inbox \in [Player -> Seq(Msg)] /\ gone \in [Player -> BOOLEAN]
      BY <1>t DEF TypeOK
    <3>2. (IF d THEN <<>> ELSE inbox[p]) \in Seq(Msg)
      BY <3>1
    <3>3. inbox' \in [Player -> Seq(Msg)]
      BY <1>16, <3>1, <3>2 DEF Hangup
    <3>4. gone' \in [Player -> BOOLEAN]
      BY <1>16, <3>1 DEF Hangup
    <3> QED
      BY <3>3, <3>4
  <2> QED
    BY <1>t, <1>16, <2>1 DEF TypeOK, Hangup, thread, board
<1>17. CASE UNCHANGED vars
  BY <1>t, <1>17 DEF TypeOK, vars, thread, board, client
<1> QED
  BY <1>1, <1>2, <1>3, <1>4, <1>5, <1>6, <1>7, <1>8, <1>9, <1>10, <1>11, <1>12,
     <1>13, <1>14, <1>15, <1>16, <1>17, <1>a
     DEF Next, Thread, Clients, Returned, Active, Idle

\* Every step keeps the rest of the invariant.
LEMMA NextConduct == IInv /\ [Next]_vars => Conduct'
<1> SUFFICES ASSUME IInv, [Next]_vars PROVE Conduct'
  OBVIOUS
<1>a. turn \in Player /\ Other(turn) \in Player /\ Other(turn) # turn
  <2>1. turn \in Player
    BY DEF IInv, Conduct, TypeOK
  <2> QED
    BY <2>1 DEF Other, Player
<1>1. CASE Begin
  BY <1>1, BeginStep
<1>2. CASE Poll
  BY <1>2, SilentStep DEF Poll, Playing, board, client
<1>3. CASE PollFail
  BY <1>3, SilentStep DEF PollFail, Playing, Goto, Enter, board, client
<1>4. CASE IdleQuiet \/ ActiveQuiet
  BY <1>4, SilentStep DEF IdleQuiet, ActiveQuiet, Playing, Goto, Enter, board, client
<1>5. ASSUME NEW l \in {"idle", "active"}, NEW p \in Player, Forfeit(l, p)
      PROVE  Conduct'
  BY <1>5, ForfeitStep
<1>6. ASSUME NEW l \in {"idle", "active"}, NEW p \in Player, Expel(l, p)
      PROVE  Conduct'
  BY <1>6, ExpelStep
<1>7. CASE IdleImpatient
  BY <1>7, <1>a, RefuseStep
     DEF IdleImpatient, ReadFrom, Consume, Goto, Enter, board, Idle
<1>8. CASE IdleIgnored \/ ActiveIgnored
  BY <1>8, SilentStep
     DEF IdleIgnored, ActiveIgnored, ReadFrom, Consume, Playing, Goto, Enter, board
<1>9. ASSUME NEW m \in Moves, BadPile(m) PROVE Conduct'
  BY <1>9, <1>a, RefuseStep
     DEF BadPile, ActiveMove, ReadFrom, Consume, Goto, Enter, board, Active
<1>10. ASSUME NEW m \in Moves, BadAmount(m) PROVE Conduct'
  BY <1>10, <1>a, RefuseStep
     DEF BadAmount, ActiveMove, ReadFrom, Consume, Goto, Enter, board, Active
<1>11. ASSUME NEW m \in Moves, TakeSome(m) PROVE Conduct'
  BY <1>11, TakeSomeStep
<1>12. ASSUME NEW m \in Moves, TakeLast(m) PROVE Conduct'
  BY <1>12, TakeLastStep
<1>13. CASE Finish
  BY <1>13, FinishStep
<1>14. CASE CloseBoth
  BY <1>14, CloseBothStep
<1>15. ASSUME NEW p \in Player, NEW m \in Msg, Send(p, m) \/ Complete(p, m)
       PROVE  Conduct'
  BY <1>15, ClientStep DEF Send, Complete
<1>16. ASSUME NEW p \in Player, NEW d \in BOOLEAN, Hangup(p, d) PROVE Conduct'
  <2>1. \A q \in Player : gone[q] => gone'[q]
    BY <1>16 DEF Hangup, IInv, TypeOK
  <2> QED
    BY <1>16, <2>1, ClientStep DEF Hangup
<1>17. CASE UNCHANGED vars
  BY <1>17, ClientStep DEF vars, client
<1> QED
  BY <1>1, <1>2, <1>3, <1>4, <1>5, <1>6, <1>7, <1>8, <1>9, <1>10, <1>11, <1>12,
     <1>13, <1>14, <1>15, <1>16, <1>17, <1>a
     DEF Next, Thread, Clients, Returned, Active, Idle

\* Every step keeps types and conduct.
LEMMA NextIInv == IInv /\ [Next]_vars => IInv'
  BY NextType, NextConduct DEF IInv

------------------------------------------------------------------------------
\* The types and the conduct of the thread hold in every state it reaches: the
\* inductive invariant behind all that follows (nimd.c 135-276).
THEOREM Inductive == Spec => []IInv
  BY InitIInv, NextIInv, PTL DEF Spec

\* The types of the game thread's state, for every board and set of MOVEs.
THEOREM TypeCorrect == Spec => []TypeOK
<1>1. IInv => TypeOK
  BY DEF IInv, Conduct
<1> QED
  BY <1>1, Inductive, PTL

\* Both players always know the game as it is.
THEOREM ViewsStayCurrent == Spec => []ViewsCurrent
<1>1. IInv => ViewsCurrent
  BY DEF IInv, Conduct
<1> QED
  BY <1>1, Inductive, PTL

\* Who wins has taken the last stone or has been left.
THEOREM VerdictsAreReal == Spec => []VerdictIsReal
<1>1. IInv => VerdictIsReal
  BY DEF IInv, Conduct
<1> QED
  BY <1>1, Inductive, PTL

\* Both players hear the same verdict, or neither hears one.
THEOREM VerdictsAgree == Spec => []VerdictAgreed
<1>1. IInv => VerdictAgreed
  BY DEF IInv, Conduct
<1> QED
  BY <1>1, Inductive, PTL

------------------------------------------------------------------------------
\* A socket the thread has closed is not written to again.
LEMMA SilentAfterClose ==
    ASSUME IInv, [Next]_vars, NEW p \in Player, closes[p] > 0
    PROVE  told'[p] = told[p]
<1>1. Phase /\ ~Playing
  <2>1. Phase /\ closes[p] # 0
    BY DEF IInv, Conduct
  <2> QED
    BY <2>1, PlayingPhase
<1>2. pc \notin {"start", "poll", "idle", "active"}
  BY <1>1 DEF Playing
<1>3. CASE Thread
  <2>1. Finish \/ CloseBoth
    BY <1>2, <1>3 DEF Thread, Begin, Poll, IdleQuiet, Forfeit, Expel, IdleImpatient,
          IdleIgnored, ActiveQuiet, ActiveIgnored, BadPile, BadAmount, TakeSome,
          TakeLast, ActiveMove, ReadFrom
  <2>2. CASE Finish
    <3>1. winner = 0
      BY <1>1, <2>2 DEF Phase, Finish
    <3> QED
      BY <2>2, <3>1 DEF Finish
  <2> QED
    BY <2>1, <2>2 DEF CloseBoth
<1>4. CASE PollFail
  BY <1>4 DEF PollFail
<1>5. CASE Clients
  BY <1>5 DEF Clients, Send, Complete, Hangup
<1> QED
  BY <1>3, <1>4, <1>5 DEF Next, Returned, vars

\* The same, of the whole behaviour.
THEOREM NeverWritesAfterClose == Spec => NoWriteAfterClose
<1>1. IInv /\ [Next]_vars
        => [\A p \in Player : closes[p] > 0 => told'[p] = told[p]]_vars
  BY SilentAfterClose
<1> QED
  BY <1>1, Inductive, PTL DEF Spec, NoWriteAfterClose

------------------------------------------------------------------------------
\* Only the moves, the forfeits, the framing errors and the failing poll are
\* steps of the abstract game.
LEMMA GameStutter ==
    ASSUME UNCHANGED <<piles, turn, winner, reason>>, Playing' <=> Playing
    PROVE  UNCHANGED Game!vars
  BY DEF Game!vars

\* A forfeit is one of the abstract game,
LEMMA GameForfeit ==
    ASSUME IInv, NEW p \in Player, NEW l \in {"idle", "active"}, Forfeit(l, p)
    PROVE  Game!Next
<1>1. Playing /\ ~Playing' /\ UNCHANGED <<piles, turn>>
  BY DEF Forfeit, ReadFrom, Enter, Playing, board
<1>2. winner' = Other(p) /\ winner' # 0 /\ reason' = "Forfeit"
  BY DEF Forfeit, Other, Player
<1> QED
  BY <1>1, <1>2 DEF Game!Next, Game!Forfeit, Game!Player, Player, Game!Other, Other

\* an end without a verdict is an abort there,
LEMMA GameAbort ==
    ASSUME IInv, Playing, ~Playing', UNCHANGED <<piles, turn, winner, reason>>
    PROVE  Game!Next
<1>1. winner = 0
  BY PlayingPhase DEF IInv, Conduct
<1> QED
  BY <1>1 DEF Game!Next, Game!Abort

\* a legal move is a move there, the last one with its verdict.
LEMMA GameMove ==
    ASSUME IInv, NEW m \in Moves, TakeSome(m) \/ TakeLast(m)
    PROVE  Game!Next
<1> DEFINE b == Remove(piles, m.pile, m.amount)
<1>1. /\ Legal(piles, m.pile, m.amount) /\ piles \in Board /\ piles' = b
      /\ m.amount \in Int /\ Playing
  BY GameThreadAssumption
     DEF TakeSome, TakeLast, ActiveMove, ReadFrom, Playing, IInv, TypeOK
<1>2. m.pile \in Game!Pile /\ m.amount \in 1..piles[m.pile]
  BY <1>1 DEF Legal, Board, Pile, Game!Pile
<1>3. /\ Game!Legal(piles, m.pile, m.amount) /\ Game!Remove(piles, m.pile, m.amount) = b
      /\ Game!Stones(piles) = Stones(piles)
      /\ Stones(b) = Stones(piles) - m.amount
      /\ Stones(piles) \in Nat /\ Stones(b) \in Nat
  BY <1>1, <1>2, RemoveBoard
     DEF Legal, Remove, Stones, Game!Legal, Game!Remove, Game!Stones, Game!Pile
<1>4. CASE TakeSome(m)
  <2>1. /\ Stones(b) > 0 /\ turn' = Other(turn) /\ Playing'
        /\ UNCHANGED <<winner, reason>>
    BY <1>4 DEF TakeSome, Goto, Enter, Playing
  <2>2. Game!Move(m.pile, m.amount)
    BY <1>1, <1>3, <2>1 DEF Game!Move, Game!Other, Other
  <2> QED
    BY <1>2, <2>2 DEF Game!Next
<1>5. CASE TakeLast(m)
  <2>1. Stones(b) = 0 /\ winner' = turn /\ reason' = "" /\ ~Playing' /\ turn' = turn
    BY <1>5 DEF TakeLast, Enter, Playing
  <2>2. turn # 0
    <3>1. turn \in Player
      BY DEF IInv, TypeOK
    <3> QED
      BY <3>1 DEF Player
  <2>3. Stones(piles) = m.amount
    <3> HIDE DEF b
    <3>1. Stones(b) = 0 /\ Stones(b) = Stones(piles) - m.amount
      BY <1>3, <2>1
    <3> QED
      BY <1>1, <1>3, <3>1
  <2>4. Game!Win(m.pile, m.amount)
    <3> HIDE DEF b
    <3> QED
      BY <1>1, <1>3, <2>1, <2>2, <2>3 DEF Game!Win
  <2> QED
    BY <1>2, <2>4 DEF Game!Next
<1> QED
  BY <1>4, <1>5

\* Every step is a step of the abstract game, or leaves it alone.
LEMMA StepImplements == IInv /\ [Next]_vars => [Game!Next]_(Game!vars)
<1> SUFFICES ASSUME IInv, [Next]_vars PROVE Game!Next \/ UNCHANGED Game!vars
  OBVIOUS
<1>a. turn \in Player /\ Other(turn) \in Player
  <2>1. turn \in Player
    BY DEF IInv, TypeOK
  <2> QED
    BY <2>1 DEF Other, Player
<1>1. CASE Begin \/ Poll \/ IdleQuiet \/ ActiveQuiet
  BY <1>1, GameStutter
     DEF Begin, Poll, IdleQuiet, ActiveQuiet, Goto, Enter, Playing, board
<1>2. CASE IdleImpatient \/ IdleIgnored \/ ActiveIgnored
  BY <1>2, GameStutter DEF IdleImpatient, IdleIgnored, ActiveIgnored, ReadFrom,
        Goto, Enter, Playing, board
<1>3. ASSUME NEW m \in Moves, BadPile(m) \/ BadAmount(m)
      PROVE  UNCHANGED Game!vars
  BY <1>3, GameStutter DEF BadPile, BadAmount, ActiveMove, ReadFrom,
        Goto, Enter, Playing, board
<1>4. CASE PollFail
  BY <1>4, GameAbort DEF PollFail, Goto, Enter, Playing, board
<1>5. ASSUME NEW l \in {"idle", "active"}, NEW p \in Player, Expel(l, p)
      PROVE  Game!Next
  BY <1>5, GameAbort DEF Expel, ReadFrom, Goto, Enter, Playing, board
<1>6. CASE Finish \/ CloseBoth
  BY <1>6, GameStutter DEF Finish, CloseBoth, Goto, Enter, Playing, board
<1>7. CASE Clients \/ Returned
  BY <1>7, GameStutter
     DEF Clients, Returned, Send, Complete, Hangup, Playing, thread, board, vars
<1>8. CASE UNCHANGED vars
  BY <1>8, GameStutter DEF vars, thread, board, Playing
<1> QED
  BY <1>1, <1>2, <1>3, <1>4, <1>5, <1>6, <1>7, <1>8, <1>a, GameForfeit, GameMove
     DEF Next, Thread, Active, Idle

\* The game thread plays Nim: whatever the clients send and whenever they
\* leave, what it does is a game with turns, moves, forfeits and verdicts.
THEOREM Refinement == Spec => ImplementsGame
<1>1. Init => Game!Init
  BY DEF Init, Game!Init, Playing
<1> QED
  BY <1>1, StepImplements, Inductive, PTL DEF Spec, ImplementsGame, Game!Spec
=============================================================================
