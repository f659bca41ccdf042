-------------------------------- MODULE Lobby --------------------------------
(* The concurrent part of nimd.c: main accepting connections (376-412), one  *)
(* handle_client thread per connection (280-374), one game_thread per pair   *)
(* (135-276, its play abstracted to what GameThread shows of it), the mutex, *)
(* and what they share: the list of names, the waiting player, and the       *)
(* process's descriptor table. A step runs from one point where a thread may *)
(* block, or others may see what it does, to the next.                       *)
EXTENDS Integers, FiniteSets

CONSTANTS Conn,         \* connections ever made, numbered as they are accepted
          Name,         \* player names within NAME_LIMIT
          Fd,           \* descriptors the process may have for clients
          NULL,
          Faults        \* what may go wrong, of AnyFault

AnyFault == {"handler",  \* pthread_create fails for a handler (403)
             "game",     \* or for a game, unchecked (367)
             "garbage",  \* clients break the framing
             "reuse"}    \* malloc gives an address that was freed before

ASSUME LobbyAssumption == /\ Conn \subseteq Nat /\ Fd \subseteq Nat
                          /\ Faults \subseteq AnyFault
                          /\ NULL \notin Conn \cup Fd \cup Name

VARIABLES hpc,          \* where the handler of a connection is
          fd, nm,       \* the descriptor and the name of its client,
          me,           \* and the address of the Player that holds them
          who,          \* whose Player is at an address; addresses are numbers
                        \* of Conn, as no more are ever needed
          gpc,          \* where the game thread a handler started is: the
                        \* handler's me is p2 of its GameState,
          opp,          \* and this is p1
          waiting_player,
          active_names,
          fdt,          \* the kernel's table: the socket behind a descriptor
          sent,         \* a message of a client that is not yet read
          gone          \* clients that have closed their end

handler == <<hpc, fd, nm, me>>
game    == <<gpc, opp>>
shared  == <<who, waiting_player, active_names>>
net     == <<fdt, sent, gone>>
vars    == <<handler, game, shared, net>>

(* An OPEN with an admissible name, any other well-formed message (OPEN with *)
(* a long name included), a framing error. A client has at most one unread.  *)
Msg == [type : {"OPEN"}, name : Name]
       \cup [type : IF "garbage" \in Faults THEN {"OTHER", "BAD"} ELSE {"OTHER"}]
Eof == [type |-> "EOF"]

------------------------------------------------------------------------------
Init == /\ hpc = [c \in Conn |-> "new"]
        /\ fd = [c \in Conn |-> NULL] /\ nm = [c \in Conn |-> NULL]
        /\ me = [c \in Conn |-> NULL] /\ who = [a \in Conn |-> NULL]
        /\ gpc = [c \in Conn |-> "none"] /\ opp = [c \in Conn |-> NULL]
        /\ waiting_player = NULL /\ active_names = {}
        /\ fdt = [f \in Fd |-> NULL]
        /\ sent = [c \in Conn |-> NULL] /\ gone = [c \in Conn |-> FALSE]

Goto(c, l) == hpc' = [hpc EXCEPT ![c] = l]

\* The socket the thread that believes to serve c really talks to, and what
\* receive_msg makes of it. A closed descriptor fails, an empty one blocks.
Sock(c) == IF fd[c] = NULL THEN NULL ELSE fdt[fd[c]]
ReadableNoHup(s) == s # NULL /\ sent[s] # NULL    \* mutant: POLLHUP is ignored
Readable(s) == s # NULL /\ (sent[s] # NULL \/ gone[s])
CanRead(c) == Sock(c) = NULL \/ Readable(Sock(c))
Received(c) == IF Sock(c) = NULL \/ sent[Sock(c)] = NULL THEN Eof ELSE sent[Sock(c)]

\* After a read from c's descriptor and the close of the descriptors F. What a
\* closed socket had not delivered is lost.
ReadAndClose(c, F) ==
    /\ fdt' = [f \in Fd |-> IF f \in F THEN NULL ELSE fdt[f]]
    /\ sent' = [s \in Conn |-> IF s = Sock(c) \/ \E f \in F : fdt[f] = s
                               THEN NULL ELSE sent[s]]
    /\ UNCHANGED gone

\* close alone
Close(F) == /\ fdt' = [f \in Fd |-> IF f \in F THEN NULL ELSE fdt[f]]
            /\ sent' = [s \in Conn |-> IF \E f \in F : fdt[f] = s
                                       THEN NULL ELSE sent[s]]
            /\ UNCHANGED gone

Free == {f \in Fd : fdt[f] = NULL}
Lowest == CHOOSE f \in Free : \A g \in Free : f <= g

\* accept takes the lowest free descriptor; with none free it fails and is
\* called again. If the handler's thread cannot be created the connection is
\* closed at once.
CanAccept(c) == /\ hpc[c] = "new" /\ Free # {}
                /\ \A d \in Conn : d < c => hpc[d] # "new"

Accept(c) == /\ CanAccept(c)
             /\ Goto(c, "hello")
             /\ fd' = [fd EXCEPT ![c] = Lowest]
             /\ fdt' = [fdt EXCEPT ![Lowest] = c]
             /\ UNCHANGED <<nm, me, game, shared, sent, gone>>

AcceptAndDrop(c) == /\ "handler" \in Faults /\ CanAccept(c)
                    /\ Goto(c, "done")
                    /\ UNCHANGED <<fd, nm, me, game, shared, net>>

\* The first message must be an OPEN (286-301).
Hello(c) == /\ hpc[c] = "hello" /\ CanRead(c)
            /\ IF Received(c).type = "OPEN"
               THEN /\ Goto(c, "register")
                    /\ nm' = [nm EXCEPT ![c] = Received(c).name]
                    /\ ReadAndClose(c, {})
               ELSE /\ Goto(c, "done")
                    /\ ReadAndClose(c, {fd[c]})
                    /\ UNCHANGED nm
            /\ UNCHANGED <<fd, me, game, shared>>

register_name(n) == n \notin active_names /\ active_names' = active_names \cup {n}
remove_name(ns) == active_names' = active_names \ ns

\* A name under the lock, and a Player; FAIL 22 and close if the name is taken.
Address(c) == IF "reuse" \in Faults THEN {a \in Conn : who[a] = NULL} ELSE {c}

Register(c) == /\ hpc[c] = "register"
               /\ register_name(nm[c])
               /\ \E a \in Address(c) : /\ me' = [me EXCEPT ![c] = a]
                                        /\ who' = [who EXCEPT ![a] = c]
               /\ Goto(c, "enter")
               /\ UNCHANGED <<fd, nm, game, waiting_player, net>>

\* Mutant: the refused client's descriptor is left open.
AlreadyPlayingLeak(c) == /\ hpc[c] = "register"
                         /\ nm[c] \in active_names
                         /\ Goto(c, "done")
                         /\ UNCHANGED <<fd, nm, me, game, shared, net>>

AlreadyPlaying(c) == /\ hpc[c] = "register"
                     /\ nm[c] \in active_names
                     /\ Goto(c, "done")
                     /\ Close({fd[c]})
                     /\ UNCHANGED <<fd, nm, me, game, shared>>

\* Under the lock again: wait, or start a game with who waits.
Wait(c) == /\ hpc[c] = "enter" /\ waiting_player = NULL
           /\ waiting_player' = me[c]
           /\ Goto(c, "poll")
           /\ UNCHANGED <<fd, nm, me, who, game, active_names, net>>

\* Mutant: waiting_player is read after it is cleared.
MatchLate(c) == /\ hpc[c] = "enter" /\ waiting_player # NULL
                /\ waiting_player' = NULL
                /\ opp' = [opp EXCEPT ![c] = waiting_player']
                /\ gpc' = [gpc EXCEPT ![c] = "play"]
                /\ Goto(c, "done")
                /\ UNCHANGED <<fd, nm, me, who, active_names, net>>

Match(c) == /\ hpc[c] = "enter" /\ waiting_player # NULL
            /\ waiting_player' = NULL
            /\ opp' = [opp EXCEPT ![c] = waiting_player]
            /\ \E l \in {"play"} \cup IF "game" \in Faults THEN {"lost"} ELSE {} :
                  gpc' = [gpc EXCEPT ![c] = l]
            /\ Goto(c, "done")
            /\ UNCHANGED <<fd, nm, me, who, active_names, net>>

------------------------------------------------------------------------------
\* The waiter polls without the lock. What poll said is acted upon later.
\* Mutant: the time-out is taken for an event.
PollReadyAnyhow(c) == /\ hpc[c] = "poll"
                      /\ Goto(c, "ready")
                      /\ UNCHANGED <<fd, nm, me, game, shared, net>>

\* Mutant: poll is asked for no events, and tells of a hang-up only.
PollReadyHup(c) == /\ hpc[c] = "poll" /\ (Sock(c) # NULL => gone[Sock(c)])
                   /\ Goto(c, "ready")
                   /\ UNCHANGED <<fd, nm, me, game, shared, net>>

PollReady(c) == /\ hpc[c] = "poll" /\ CanRead(c)
                /\ Goto(c, "ready")
                /\ UNCHANGED <<fd, nm, me, game, shared, net>>

PollTimeout(c) == /\ hpc[c] = "poll" /\ ~CanRead(c)
                  /\ Goto(c, "timeout")
                  /\ UNCHANGED <<fd, nm, me, game, shared, net>>

\* With the lock, the recheck of waiting_player (330-336): an address that may
\* by now be that of another Player, whose name is then removed.
\* Mutant: the handler of a matched player closes its descriptor.
MatchedAndClose(c) == /\ hpc[c] \in {"ready", "timeout"} /\ waiting_player # me[c]
                      /\ Goto(c, "done")
                      /\ Close({fd[c]})
                      /\ UNCHANGED <<fd, nm, me, game, shared>>
Matched(c) == /\ hpc[c] \in {"ready", "timeout"} /\ waiting_player # me[c]
              /\ Goto(c, "done")
              /\ UNCHANGED <<fd, nm, me, game, shared, net>>

PollAgain(c) == /\ hpc[c] = "timeout" /\ waiting_player = me[c]
                /\ Goto(c, "poll")
                /\ UNCHANGED <<fd, nm, me, game, shared, net>>

\* Mutant: what poll said is acted upon without the recheck.
LeaveUnchecked(c) == /\ hpc[c] = "ready"
                     /\ waiting_player' = IF waiting_player = me[c] THEN NULL
                                          ELSE waiting_player
                     /\ remove_name({nm[who[me[c]]]})
                     /\ Goto(c, "bye")
                     /\ UNCHANGED <<fd, nm, me, who, game, net>>
Leave(c) == /\ hpc[c] = "ready" /\ waiting_player = me[c]
            /\ waiting_player' = NULL
            /\ remove_name({nm[who[me[c]]]})
            /\ Goto(c, "bye")
            /\ UNCHANGED <<fd, nm, me, who, game, net>>

\* The message that ended the wait is read and refused, and the Player freed.
Bye(c) == /\ hpc[c] = "bye" /\ CanRead(c)
          /\ ReadAndClose(c, {fd[c]})
          /\ who' = [who EXCEPT ![me[c]] = NULL]
          /\ Goto(c, "done")
          /\ UNCHANGED <<fd, nm, me, game, waiting_player, active_names>>

------------------------------------------------------------------------------
\* The connections whose Players a game has.
Players(g) == {who[a] : a \in {opp[g], me[g]}}

GoGame(g, l) == gpc' = [gpc EXCEPT ![g] = l] /\ UNCHANGED opp

\* The game thread reads from player p: the game ends with the player's
\* leaving, with a framing error after which the player's descriptor is closed
\* at once (179, 201, 209), or perhaps with a move. POLLNVAL, of a descriptor
\* that is not open, is not among the events it looks for.
GameRead(g, p) == /\ gpc[g] = "play" /\ p \in Players(g) /\ Readable(Sock(p))
                  /\ \E l \in IF Received(p).type = "OTHER" THEN {"play", "end"}
                              ELSE IF Received(p).type = "OPEN" THEN {"play"}
                              ELSE {"end"} : GoGame(g, l)
                  /\ ReadAndClose(p, IF Received(p).type = "BAD" THEN {fd[p]} ELSE {})
                  /\ UNCHANGED <<handler, shared>>

\* poll fails
GameAbort(g) == /\ gpc[g] = "play"
                /\ GoGame(g, "end")
                /\ UNCHANGED <<handler, shared, net>>

\* OVER, if there is a winner, and both closes (251-265).
GameClose(g) == /\ gpc[g] = "end"
                /\ GoGame(g, "unreg")
                /\ Close({fd[p] : p \in Players(g)})
                /\ UNCHANGED <<handler, shared>>

FreePlayers(g) == who' = [a \in Conn |-> IF a \in {opp[g], me[g]} THEN NULL ELSE who[a]]

\* Mutant: only the name of p1 leaves the list.
GameUnregFirst(g) == /\ gpc[g] = "unreg"
                     /\ remove_name({nm[who[opp[g]]]})
                     /\ FreePlayers(g)
                     /\ GoGame(g, "over")
                     /\ UNCHANGED <<handler, waiting_player, net>>

\* The names leave the list under the lock, the Players are freed, and the
\* thread returns.
GameUnreg(g) == /\ gpc[g] = "unreg"
                /\ remove_name({nm[p] : p \in Players(g)})
                /\ FreePlayers(g)
                /\ GoGame(g, "over")
                /\ UNCHANGED <<handler, waiting_player, net>>

------------------------------------------------------------------------------
\* The clients.
Connected(c) == \E f \in Fd : fdt[f] = c

Send(c, m) == /\ Connected(c) /\ ~gone[c] /\ sent[c] = NULL
              /\ sent' = [sent EXCEPT ![c] = m]
              /\ UNCHANGED <<handler, game, shared, fdt, gone>>

Hangup(c) == /\ Connected(c) /\ ~gone[c]
             /\ gone' = [gone EXCEPT ![c] = TRUE]
             /\ UNCHANGED <<handler, game, shared, fdt, sent>>

Handler(c) == \/ Hello(c) \/ Register(c) \/ AlreadyPlaying(c)
              \/ Wait(c) \/ Match(c)
              \/ PollReady(c) \/ PollTimeout(c) \/ Matched(c) \/ PollAgain(c)
              \/ Leave(c) \/ Bye(c)

GameEnds(g) == GameClose(g) \/ GameUnreg(g)

\* Every connection has been served and main sits in accept.
AllServed == /\ \A c \in Conn : hpc[c] = "done" /\ gpc[c] \in {"none", "over", "lost"}
             /\ UNCHANGED vars

Next == \/ AllServed
        \/ \E c \in Conn : \/ Accept(c) \/ AcceptAndDrop(c)
                           \/ Handler(c)
                           \/ \E p \in Conn : GameRead(c, p)
                           \/ GameAbort(c) \/ GameEnds(c)
                           \/ \E m \in Msg : Send(c, m)
                           \/ Hangup(c)

Spec == Init /\ [][Next]_vars

\* The kernel schedules every thread, and every player of a game is read from
\* in time: GameThread shows that no player starves the other. Nothing is
\* asked of the clients, of accept or of a failing poll.
FairSpec == /\ Spec
            /\ \A c \in Conn : /\ WF_vars(Handler(c))
                              /\ WF_vars(GameEnds(c))
                              /\ \A p \in Conn : WF_vars(GameRead(c, p))
------------------------------------------------------------------------------
TypeOK == /\ hpc \in [Conn -> {"new", "hello", "register", "enter", "poll",
                               "ready", "timeout", "bye", "done"}]
          /\ fd \in [Conn -> Fd \cup {NULL}] /\ nm \in [Conn -> Name \cup {NULL}]
          /\ me \in [Conn -> Conn \cup {NULL}] /\ who \in [Conn -> Conn \cup {NULL}]
          /\ gpc \in [Conn -> {"none", "play", "end", "unreg", "over", "lost"}]
          /\ opp \in [Conn -> Conn \cup {NULL}]
          /\ \A g \in Conn : gpc[g] # "none" => opp[g] \in Conn
          /\ waiting_player \in Conn \cup {NULL} /\ active_names \subseteq Name
          /\ fdt \in [Fd -> Conn \cup {NULL}]
          /\ sent \in [Conn -> Msg \cup {NULL}] /\ gone \in [Conn -> BOOLEAN]

Slot(c) == waiting_player # NULL /\ who[waiting_player] = c
InGame(c, ls) == \E g \in Conn : gpc[g] \in ls /\ c \in Players(g)

\* The list of names is exactly the names of the players between OPEN and the
\* end of their wait or game, no two of them the same: nobody is locked out by
\* a name left behind, nobody plays under the name of another (303-309,
\* 334-335, 267-270).
HoldsName(c) == \/ hpc[c] = "enter" \/ Slot(c)
                \/ InGame(c, {"play", "end", "unreg", "lost"})
NamesExact == /\ active_names = {nm[c] : c \in {d \in Conn : HoldsName(d)}}
              /\ \A c, d \in Conn :
                    HoldsName(c) /\ HoldsName(d) /\ nm[c] = nm[d] => c = d

\* A Player belongs to exactly one thread that will free it: its handler on the
\* way in and out, whoever finds it waiting, or one game. So none is freed twice,
\* used when it is freed, or forgotten, though its handler looks away while it
\* polls without the lock (320-336, 353, 359-364, 272-273).
Owners(a) ==
    {<<"handler", c>> : c \in {d \in Conn : hpc[d] \in {"enter", "bye"} /\ me[d] = a}}
    \cup {<<"game", g>> : g \in {h \in Conn : /\ gpc[h] \in {"play", "end", "unreg", "lost"}
                                             /\ a \in {opp[h], me[h]}}}
    \cup {<<"slot", p>> : p \in {waiting_player} \cap {a}}
OneOwner == /\ \A a \in Conn : IF who[a] = NULL THEN Owners(a) = {}
                                ELSE \E o \in Owners(a) : Owners(a) = {o}
            /\ \A g \in Conn : gpc[g] \in {"play", "end", "unreg"} => opp[g] # me[g]

\* The connections the server still has to answer or to close.
Served(c) == \/ hpc[c] \in {"hello", "register", "enter", "bye"}
             \/ Slot(c) \/ InGame(c, {"play", "lost"})

\* No descriptor is leaked: an open one is that of a connection some thread
\* will still close, and there is only one for it. Games that never started
\* (367) do leak theirs.
NoFdLeak ==
    \A f \in Fd : fdt[f] # NULL =>
        fd[fdt[f]] = f /\ (Served(fdt[f]) \/ InGame(fdt[f], {"end"}))

\* A connection is closed by nobody but the threads that serve it. With broken
\* framing it is not so: the game thread closes the offender's descriptor twice
\* (179, 201, 209 and 264-265), and accept may have reused it in between.
SocketsKept == \A c \in Conn : Served(c) => Sock(c) = c

\* What a client held is given back once it has left: its socket is closed and
\* its name is free, wherever it was in the protocol when it left.
Reclaimed == \A c \in Conn : gone[c] ~> ~Connected(c) /\ ~HoldsName(c)

\* A waiter who speaks or leaves does not keep the slot: it is refused or has
\* been matched (328-336).
WaiterHeeded == \A c \in Conn : Slot(c) /\ Readable(c) ~> ~Slot(c)

\* A waiter that says nothing and stays waits until it is in a game: no thread
\* but its own gives up its place (325-336, 359-371). With Player addresses that
\* come back it is not so: the handler of a player whose game was over before
\* it looked again finds the address it kept in waiting_player, and shows the
\* new client the door.
WaiterKept == [][\A c \in Conn : Slot(c) => \/ Readable(c) \/ Slot(c)'
                                            \/ InGame(c, {"play", "lost"})']_vars
=============================================================================
