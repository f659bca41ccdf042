----------------------------- MODULE GameThread -----------------------------
(* One game_thread of nimd.c (135-276), the two sockets it polls and the two *)
(* clients behind them, from the thread's first message to the return of its *)
(* closes. A step of the thread runs from one blocking call to the next. The *)
(* clients send what they like and hang up when they like.                   *)
EXTENDS NimRules, Sequences

CONSTANTS Moves,         \* the well-formed MOVEs the clients may send
          MaxInbox      \* bound: messages sent and not yet read, per client

ASSUME GameThreadAssumption ==
    /\ Moves \subseteq [type : {"MOVE"}, pile : Int, amount : Int]
    /\ MaxInbox \in Nat

VARIABLES pc,           \* where the thread is
          piles, turn,  \* GameState
          winner,       \* winner and reason, the thread's locals
          reason,
          boardStr,     \* board_str: the board as last formatted
          revents,      \* the readable players the last poll reported
          inbox,        \* messages sent by a client and not yet read
          gone,         \* clients that have closed their end
          told,         \* the messages a player was sent by the last step
                        \* of the thread that sent it any
          closes        \* how often the thread has closed a player's socket

thread == <<pc, winner, reason, revents>>
board  == <<piles, turn, boardStr>>
client == <<inbox, gone>>
vars   == <<thread, board, client, told, closes>>

(* What receive_msg makes of the bytes of one client: a MOVE with both       *)
(* arguments, one without its second '|', any other well-formed message, a   *)
(* framing error, or the beginning of a message whose rest does not come.    *)
Msg == Moves \cup [type : {"SHORT", "OTHER", "BAD", "PART"}]

NameMsg(p)       == [kind |-> "NAME", who |-> p]
PlayMsg(p, b)    == [kind |-> "PLAY", who |-> p, board |-> b]
OverMsg(p, b, r) == [kind |-> "OVER", who |-> p, board |-> b, reason |-> r]
FailMsg(code)    == [kind |-> "FAIL", code |-> code]

Active == turn
Idle   == Other(turn)

\* Playing: the thread has not left its loop.
Playing == pc \in {"start", "poll", "idle", "active"}

------------------------------------------------------------------------------
Init == /\ pc = "start"
        /\ piles = Start /\ turn = 1 /\ boardStr = Start
        /\ winner = 0 /\ reason = ""
        /\ revents = {}
        /\ inbox = [p \in Player |-> <<>>]
        /\ gone = [p \in Player |-> FALSE]
        /\ told = [p \in Player |-> <<>>]
        /\ closes = [p \in Player |-> 0]

\* revents is only read in the pass of the loop that polled it.
Enter(l) == pc' = l /\ revents' = IF l = "active" THEN revents ELSE {}
Goto(l)  == Enter(l) /\ UNCHANGED <<winner, reason>>

\* What receive_msg(fd of p) is about to return: -1 for end of file (also in
\* the middle of a message), 10 for a framing error, 0 for a message. While
\* CanRead does not hold the call blocks, and the thread with it.
CanRead(p) == gone[p] \/ (inbox[p] # <<>> /\ Head(inbox[p]).type # "PART")
Rc(p) == IF inbox[p] = <<>> \/ Head(inbox[p]).type = "PART" THEN -1
         ELSE IF Head(inbox[p]).type = "BAD" THEN 10 ELSE 0
Stalled(p) == ~CanRead(p) /\ inbox[p] # <<>>

Consume(p) == /\ inbox' = [inbox EXCEPT ![p] = IF @ = <<>> THEN @ ELSE Tail(@)]
              /\ UNCHANGED gone

Begin == /\ pc = "start"
         /\ Goto("poll")
         /\ told' = [p \in Player |-> <<NameMsg(p), PlayMsg(turn, boardStr)>>]
         /\ UNCHANGED <<board, client, closes>>

\* Mutants: POLLHUP is not asked for; of two readable players only the first
\* is reported.
ReadableNoHup == {p \in Player : inbox[p] # <<>>}
PollFirst == /\ pc = "poll" /\ \E p \in Player : inbox[p] # <<>> \/ gone[p]
             /\ revents' = IF inbox[1] # <<>> \/ gone[1] THEN {1} ELSE {2}
             /\ pc' = "idle"
             /\ UNCHANGED <<winner, reason, board, client, told, closes>>

\* poll(pfds, 2, -1): returns once a player is readable.
Readable == {p \in Player : inbox[p] # <<>> \/ gone[p]}
Poll == /\ pc = "poll" /\ Readable # {}
        /\ revents' = Readable
        /\ pc' = "idle"
        /\ UNCHANGED <<winner, reason, board, client, told, closes>>

\* poll fails: the loop is left without a winner.
PollFail == /\ pc = "poll"
            /\ Goto("end")
            /\ UNCHANGED <<board, client, told, closes>>

------------------------------------------------------------------------------
\* The idle player is checked first.
IdleQuiet == /\ pc = "idle" /\ Idle \notin revents
             /\ Goto("active")
             /\ UNCHANGED <<board, client, told, closes>>

ReadFrom(l, p) == pc = l /\ p \in revents /\ CanRead(p) /\ Consume(p)

\* Mutant: the player to move wins, whoever left.
ForfeitToMover(l, p) == /\ ReadFrom(l, p) /\ Rc(p) = -1
                        /\ winner' = turn /\ reason' = "Forfeit"
                        /\ Enter("end")
                        /\ UNCHANGED <<board, told, closes>>

\* End of file from p while at l: the other player wins by forfeit.
Forfeit(l, p) == /\ ReadFrom(l, p) /\ Rc(p) = -1
                 /\ winner' = Other(p) /\ reason' = "Forfeit"
                 /\ Enter("end")
                 /\ UNCHANGED <<board, told, closes>>

\* Mutant: a framing error forfeits the game.
ExpelAndAward(l, p) == /\ ReadFrom(l, p)
                       /\ \/ Rc(p) = 10
                          \/ l = "active" /\ Rc(p) = 0 /\ Head(inbox[p]).type = "SHORT"
                       /\ told' = [told EXCEPT ![p] = <<FailMsg(10)>>]
                       /\ closes' = [closes EXCEPT ![p] = @ + 1]
                       /\ winner' = Other(p) /\ UNCHANGED reason /\ Enter("end")
                       /\ UNCHANGED board

\* A framing error: FAIL 10 and close, and the loop is left with no winner.
Expel(l, p) == /\ ReadFrom(l, p)
               /\ \/ Rc(p) = 10
                  \/ l = "active" /\ Rc(p) = 0 /\ Head(inbox[p]).type = "SHORT"
               /\ told' = [told EXCEPT ![p] = <<FailMsg(10)>>]
               /\ closes' = [closes EXCEPT ![p] = @ + 1]
               /\ Goto("end")
               /\ UNCHANGED board

\* FAIL with the cached board as a reminder.
Refuse(p, code) == told' = [told EXCEPT ![p] =
                              <<FailMsg(code), PlayMsg(turn, boardStr)>>]

IdleImpatient == /\ ReadFrom("idle", Idle)
                 /\ Rc(Idle) = 0 /\ Head(inbox[Idle]).type \in {"MOVE", "SHORT"}
                 /\ Refuse(Idle, 31)
                 /\ Goto("active")
                 /\ UNCHANGED <<board, closes>>

IdleIgnored == /\ ReadFrom("idle", Idle)
               /\ Rc(Idle) = 0 /\ Head(inbox[Idle]).type = "OTHER"
               /\ Goto("active")
               /\ UNCHANGED <<board, told, closes>>

------------------------------------------------------------------------------
ActiveQuiet == /\ pc = "active" /\ Active \notin revents
               /\ Goto("poll")
               /\ UNCHANGED <<board, client, told, closes>>

ActiveIgnored == /\ ReadFrom("active", Active)
                 /\ Rc(Active) = 0 /\ Head(inbox[Active]).type = "OTHER"
                 /\ Goto("poll")
                 /\ UNCHANGED <<board, told, closes>>

\* The active player's MOVE m.
ActiveMove(m) == /\ ReadFrom("active", Active)
                 /\ Rc(Active) = 0 /\ m = Head(inbox[Active]) /\ m.type = "MOVE"

BadPile(m) == /\ ActiveMove(m)
              /\ m.pile \notin Pile
              /\ Refuse(Active, 32)
              /\ Goto("poll")
              /\ UNCHANGED <<board, closes>>

BadAmount(m) == /\ ActiveMove(m)
                /\ m.pile \in Pile /\ ~Legal(piles, m.pile, m.amount)
                /\ Refuse(Active, 33)
                /\ Goto("poll")
                /\ UNCHANGED <<board, closes>>

\* Mutants: board_str is formatted before the stones are taken; the turn is
\* not passed on.
TakeStale(m) == /\ ActiveMove(m) /\ Legal(piles, m.pile, m.amount)
                /\ Stones(Remove(piles, m.pile, m.amount)) > 0
                /\ piles' = Remove(piles, m.pile, m.amount)
                /\ turn' = Other(turn) /\ UNCHANGED boardStr
                /\ told' = [p \in Player |-> <<PlayMsg(Other(turn), boardStr)>>]
                /\ Goto("poll")
                /\ UNCHANGED closes
TakeAndStay(m) == LET b == Remove(piles, m.pile, m.amount)
                  IN /\ ActiveMove(m) /\ Legal(piles, m.pile, m.amount)
                     /\ Stones(b) > 0
                     /\ piles' = b /\ boardStr' = b /\ UNCHANGED turn
                     /\ told' = [p \in Player |-> <<PlayMsg(turn, b)>>]
                     /\ Goto("poll")
                     /\ UNCHANGED closes

TakeSome(m) == LET b == Remove(piles, m.pile, m.amount)
               IN /\ ActiveMove(m) /\ Legal(piles, m.pile, m.amount)
                  /\ Stones(b) > 0
                  /\ piles' = b /\ turn' = Other(turn) /\ boardStr' = b
                  /\ told' = [p \in Player |-> <<PlayMsg(Other(turn), b)>>]
                  /\ Goto("poll")
                  /\ UNCHANGED closes

TakeLast(m) == LET b == Remove(piles, m.pile, m.amount)
               IN /\ ActiveMove(m) /\ Legal(piles, m.pile, m.amount)
                  /\ Stones(b) = 0
                  /\ piles' = b /\ UNCHANGED <<turn, boardStr>>
                  /\ winner' = turn /\ reason' = ""
                  /\ Enter("end")
                  /\ UNCHANGED <<told, closes>>

------------------------------------------------------------------------------
\* Mutant: OVER shows the board of the last PLAY.
FinishStale == /\ pc = "end"
               /\ told' = IF winner = 0 THEN told
                          ELSE [p \in Player |-> <<OverMsg(winner, boardStr, reason)>>]
               /\ Goto("close")
               /\ UNCHANGED <<board, client, closes>>

Finish == /\ pc = "end"
          /\ boardStr' = piles
          /\ told' = IF winner = 0 THEN told
                     ELSE [p \in Player |-> <<OverMsg(winner, piles, reason)>>]
          /\ Goto("close")
          /\ UNCHANGED <<piles, turn, client, closes>>

CloseBoth == /\ pc = "close"
             /\ closes' = [p \in Player |-> closes[p] + 1]
             /\ Goto("done")
             /\ UNCHANGED <<board, client, told>>

\* The clients. A message after a partial one would only be its rest.
Send(p, m) == /\ ~gone[p] /\ Len(inbox[p]) < MaxInbox
              /\ \A i \in 1..Len(inbox[p]) : inbox[p][i].type # "PART"
              /\ inbox' = [inbox EXCEPT ![p] = Append(@, m)]
              /\ UNCHANGED <<thread, board, gone, told, closes>>

\* The rest of a partial message comes after all.
Complete(p, m) == /\ Stalled(p) /\ m.type # "PART"
                  /\ inbox' = [inbox EXCEPT ![p] = <<m>> \o Tail(@)]
                  /\ UNCHANGED <<thread, board, gone, told, closes>>

\* A client closes, or its connection is reset and what it sent is dropped.
Hangup(p, dropped) == /\ ~gone[p]
                      /\ gone' = [gone EXCEPT ![p] = TRUE]
                      /\ inbox' = [inbox EXCEPT ![p] = IF dropped THEN <<>> ELSE @]
                      /\ UNCHANGED <<thread, board, told, closes>>

Returned == pc = "done" /\ UNCHANGED vars

------------------------------------------------------------------------------
\* The thread's steps, the failing poll aside.
Thread == \/ Begin \/ Poll
          \/ IdleQuiet \/ Forfeit("idle", Idle) \/ Expel("idle", Idle)
          \/ IdleImpatient \/ IdleIgnored
          \/ ActiveQuiet \/ Forfeit("active", Active) \/ Expel("active", Active)
          \/ ActiveIgnored
          \/ \E m \in Moves : BadPile(m) \/ BadAmount(m) \/ TakeSome(m) \/ TakeLast(m)
          \/ Finish \/ CloseBoth

Clients == \E p \in Player : \/ \E m \in Msg : Send(p, m) \/ Complete(p, m)
                             \/ \E d \in BOOLEAN : Hangup(p, d)

Next == Thread \/ PollFail \/ Clients \/ Returned

\* The kernel schedules the thread; nothing is asked of the clients.
Spec == Init /\ [][Next]_vars /\ WF_vars(Thread)
------------------------------------------------------------------------------
Sent == [kind : {"NAME"}, who : Player]
        \cup [kind : {"PLAY"}, who : Player, board : Board]
        \cup [kind : {"OVER"}, who : Player, board : Board, reason : {"", "Forfeit"}]
        \cup [kind : {"FAIL"}, code : {10, 31, 32, 33}]

TypeOK == /\ pc \in {"start", "poll", "idle", "active", "end", "close", "done"}
          /\ piles \in Board /\ turn \in Player /\ boardStr \in Board
          /\ winner \in {0} \cup Player /\ reason \in {"", "Forfeit"}
          /\ revents \subseteq Player
          /\ inbox \in [Player -> Seq(Msg)] /\ gone \in [Player -> BOOLEAN]
          /\ told \in [Player -> Seq(Sent)]
          /\ closes \in [Player -> 0..2]

\* While the game is played both players know it as it is: the last thing
\* either was sent is a PLAY with the turn and the piles, cached board_str
\* included, and a refusal that came with it blamed the right one: FAIL 31
\* the player who is not to move, FAIL 32 and 33 the one who is
\* (182-184, 219-227, 241-247).
ViewsCurrent ==
    pc \in {"poll", "idle", "active"} =>
        /\ boardStr = piles
        /\ \A p \in Player :
              /\ Len(told[p]) = 2 \/ Len(told[p]) = 1
              /\ told[p][Len(told[p])] = PlayMsg(turn, piles)
              /\ told[p][1].kind = "FAIL" =>
                    told[p][1].code \in IF p = turn THEN {32, 33} ELSE {31}

\* Nobody wins a game that is not decided: a win by the last stone is of the
\* player who was to move and leaves no stone, a win by forfeit is over a
\* player who has hung up with stones on the board, and while there is no
\* winner there are stones (174-176, 197-198, 235-238).
VerdictIsReal ==
    /\ Stones(piles) = 0 => winner = turn /\ reason = ""
    /\ winner # 0 /\ reason = "" => Stones(piles) = 0
    /\ reason = "Forfeit" => winner # 0 /\ gone[Other(winner)]

SaidOver(p) == told[p] # <<>> /\ told[p][1].kind = "OVER"

\* The verdict is common: once the thread has left its loop and said what it
\* has to say, both players have been told OVER with the same winner and the
\* final board, or neither has been told OVER at all (254-262).
VerdictAgreed ==
    pc \in {"close", "done"} =>
        \A p \in Player :
            IF winner # 0
            THEN told[p] = <<OverMsg(winner, piles, reason)>>
            ELSE told[p] # <<>> /\ ~SaidOver(p)

\* Nothing is written to a socket the thread has closed: the number may by
\* then belong to another client. The framing errors close early (179, 201,
\* 209), so this needs their games to stay without a winner.
NoWriteAfterClose == [][\A p \in Player : closes[p] > 0 => told'[p] = told[p]]_vars

\* The thread implements the game: each of its steps is a move, a forfeit,
\* the giving up of the game, or nothing the game knows of.
Game == INSTANCE NimGame
        WITH how <- IF Playing THEN "playing" ELSE IF winner = 0 THEN "aborted"
                    ELSE IF reason = "" THEN "won" ELSE "forfeit"
ImplementsGame == Game!Spec

\* A player who leaves ends the game, and both sockets are closed, unless the
\* thread is blocked in the middle of the other player's message (196-200,
\* 174-178, 264-265).
HangupEndsGame ==
    \A p \in Player : gone[p] ~> pc = "done" \/ Stalled(Other(p))

\* Neither player is starved by the other: a full inbox is read from, or the
\* game ends, or somebody stalls in the middle of a message (171-192).
NoStarvation ==
    \A p \in Player : Len(inbox[p]) = MaxInbox
                        ~> \/ Len(inbox[p]) < MaxInbox
                           \/ pc = "done" \/ \E q \in Player : Stalled(q)
=============================================================================
