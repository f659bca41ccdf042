----------------------------- MODULE LobbyProofs -----------------------------
(* The safety of the lobby, for any number of connections, any names and any *)
(* descriptors: what holds under every fault, what needs Players at          *)
(* addresses of their own, and what needs well-framed clients too.           *)
EXTENDS Lobby, WellFoundedInduction, TLAPS

\* accept finds a descriptor when one is free.
LEMMA LowestFree ==
    ASSUME Free # {}
    PROVE  Lowest \in Free /\ Lowest \in Fd /\ fdt[Lowest] = NULL
<1>1. IsWellFoundedOn({p \in Nat \X Nat : p[1] < p[2]}, Nat)
  BY NatLessThanWellFounded DEF OpToRel
<1>2. Free \subseteq Nat
  BY LobbyAssumption DEF Free
<1>3. PICK f \in Free : \A g \in Free : <<g, f>> \notin {p \in Nat \X Nat : p[1] < p[2]}
  BY <1>1, <1>2, WFMin
<1>4. \A g \in Free : f <= g
  <2> SUFFICES ASSUME NEW g \in Free PROVE f <= g
    OBVIOUS
  <2>1. f \in Nat /\ g \in Nat
    BY <1>2
  <2>2. ~(g < f)
    BY <1>3, <2>1
  <2> QED
    BY <2>1, <2>2
<1> QED
  BY <1>4 DEF Lowest, Free

------------------------------------------------------------------------------
\* What is read is a message, and the tables stay tables.
LEMMA SockType ==
    ASSUME TypeOK, NEW c \in Conn
    PROVE  Sock(c) \in Conn \cup {NULL}
  BY DEF TypeOK, Sock

\* An OPEN that is read carries a name.
LEMMA ReceivedName ==
    ASSUME TypeOK, NEW c \in Conn, Received(c).type = "OPEN"
    PROVE  Received(c).name \in Name
<1>1. Received(c) # Eof
  BY DEF Eof
<1>2. Sock(c) \in Conn /\ Received(c) = sent[Sock(c)] /\ sent[Sock(c)] # NULL
  BY <1>1, SockType DEF Received
<1>3. Received(c) \in Msg
  BY <1>2 DEF TypeOK
<1>4. Received(c) \in [type : {"OPEN"}, name : Name]
  BY <1>3 DEF Msg
<1> QED
  BY <1>4

\* The table of descriptors and the messages stay what they are,
\* after a read and a close,
LEMMA ReadAndCloseTypes ==
    ASSUME TypeOK, NEW c, NEW F, ReadAndClose(c, F)
    PROVE  /\ fdt' \in [Fd -> Conn \cup {NULL}]
           /\ sent' \in [Conn -> Msg \cup {NULL}] /\ gone' \in [Conn -> BOOLEAN]
  BY DEF TypeOK, ReadAndClose

\* and after a close alone.
LEMMA CloseTypes ==
    ASSUME TypeOK, NEW F, Close(F)
    PROVE  /\ fdt' \in [Fd -> Conn \cup {NULL}]
           /\ sent' \in [Conn -> Msg \cup {NULL}] /\ gone' \in [Conn -> BOOLEAN]
  BY DEF TypeOK, Close

\* A handler that looks for a name has one.
TypeInv == TypeOK /\ \A c \in Conn : hpc[c] = "register" => nm[c] \in Name

\* The steps of a handler.
LEMMA HandlerTypes ==
    ASSUME TypeInv, NEW c \in Conn,
           Accept(c) \/ AcceptAndDrop(c) \/ Handler(c)
    PROVE  TypeInv'
<1>1. CASE Accept(c)
  BY <1>1, LowestFree DEF Accept, CanAccept, Goto, TypeOK, TypeInv, game, shared
<1>2. CASE AcceptAndDrop(c)
  BY <1>2 DEF AcceptAndDrop, Goto, TypeOK, TypeInv, game, shared, net
<1>3. CASE Hello(c)
  BY <1>3, ReceivedName, ReadAndCloseTypes DEF Hello, Goto, TypeOK, TypeInv, game, shared
<1>4. CASE Register(c)
  <2>1. Address(c) \subseteq Conn
    BY DEF Address
  <2> QED
    BY <1>4, <2>1 DEF Register, register_name, Goto, TypeOK, TypeInv, game, net
<1>5. CASE AlreadyPlaying(c)
  BY <1>5, CloseTypes DEF AlreadyPlaying, Goto, TypeOK, TypeInv, game, shared
<1>6. CASE Wait(c)
  BY <1>6 DEF Wait, Goto, TypeOK, TypeInv, game, net
<1>7. CASE Match(c)
  BY <1>7 DEF Match, Goto, TypeOK, TypeInv, net
<1>8. CASE PollReady(c) \/ PollTimeout(c) \/ Matched(c) \/ PollAgain(c)
  BY <1>8 DEF PollReady, PollTimeout, Matched, PollAgain, Goto, TypeOK, TypeInv, game, shared, net
<1>9. CASE Leave(c)
  BY <1>9 DEF Leave, remove_name, Goto, TypeOK, TypeInv, game, net
<1>10. CASE Bye(c)
  BY <1>10, ReadAndCloseTypes DEF Bye, Goto, TypeOK, TypeInv, game
<1> QED
  BY <1>1, <1>2, <1>3, <1>4, <1>5, <1>6, <1>7, <1>8, <1>9, <1>10 DEF Handler

\* The steps of a game and of a client.
LEMMA OtherTypes ==
    ASSUME TypeInv, NEW c \in Conn,
           \/ \E p \in Conn : GameRead(c, p)
           \/ GameAbort(c) \/ GameEnds(c)
           \/ \E m \in Msg : Send(c, m)
           \/ Hangup(c)
    PROVE  TypeInv'
<1>1. CASE \E p \in Conn : GameRead(c, p)
  BY <1>1, ReadAndCloseTypes DEF GameRead, GoGame, TypeOK, TypeInv, handler, shared
<1>2. CASE GameAbort(c)
  BY <1>2 DEF GameAbort, GoGame, TypeOK, TypeInv, handler, shared, net
<1>3. CASE GameClose(c)
  BY <1>3, CloseTypes DEF GameClose, GoGame, TypeOK, TypeInv, handler, shared
<1>4. CASE GameUnreg(c)
  BY <1>4 DEF GameUnreg, GoGame, FreePlayers, remove_name, TypeOK, TypeInv, handler, net
<1>5. CASE \E m \in Msg : Send(c, m)
  BY <1>5 DEF Send, TypeOK, TypeInv, handler, game, shared
<1>6. CASE Hangup(c)
  BY <1>6 DEF Hangup, TypeOK, TypeInv, handler, game, shared
<1> QED
  BY <1>1, <1>2, <1>3, <1>4, <1>5, <1>6 DEF GameEnds

\* No step leaves the types.
LEMMA TypeStep ==
    ASSUME TypeInv, [Next]_vars
    PROVE  TypeInv'
<1>1. CASE UNCHANGED vars
  BY <1>1 DEF vars, handler, game, shared, net, TypeOK, TypeInv
<1>2. CASE AllServed
  BY <1>1, <1>2 DEF AllServed
<1> QED
  BY <1>1, <1>2, HandlerTypes, OtherTypes DEF Next

\* It all begins well typed.
LEMMA InitTypes == Init => TypeInv
  BY LobbyAssumption DEF Init, TypeOK, TypeInv

\* Every state is well typed, whatever the faults (nimd.c 280-412).
THEOREM TypeCorrect == Spec => []TypeOK
<1>1. TypeInv => TypeOK
  BY DEF TypeInv
<1>2. TypeInv /\ [Next]_vars => TypeInv'
  BY TypeStep
<1> QED
  BY <1>1, <1>2, InitTypes, PTL DEF Spec

------------------------------------------------------------------------------
\* When no address comes back, a Player is known by its connection: a handler
\* that has one has its own, and so has every game.
Live == {"play", "end", "unreg", "lost"}
Has(g, c) == gpc[g] \in Live /\ c \in {opp[g], g}

\* Where the handlers of those in the slot or in a game may be.
Places ==
    \A c \in Conn :
        /\ me[c] \in {NULL, c} /\ who[c] \in {NULL, c}
        /\ hpc[c] \in {"enter", "poll", "ready", "timeout", "bye"} => me[c] = c
        /\ gpc[c] # "none" => hpc[c] = "done" /\ me[c] = c
        /\ gpc[c] \in Live => /\ opp[c] # c
                              /\ hpc[opp[c]] \in {"poll", "ready", "timeout", "done"}
        /\ waiting_player = c => hpc[c] \in {"poll", "ready", "timeout"}

\* A Player is allocated while somebody has it, and two never have it.
Owned ==
    \A c \in Conn :
        /\ who[c] = c <=> \/ hpc[c] \in {"enter", "bye"} \/ waiting_player = c
                          \/ \E g \in Conn : Has(g, c)
        /\ waiting_player = c => \A g \in Conn : ~Has(g, c)
        /\ \A g, h \in Conn : Has(g, c) /\ Has(h, c) => g = h

\* The names on the list are those of whoever has a Player for others to meet.
Holds(c) == hpc[c] = "enter" \/ waiting_player = c \/ \E g \in Conn : Has(g, c)

NamesHeld ==
    /\ \A n : n \in active_names <=> \E c \in Conn : Holds(c) /\ nm[c] = n
    /\ \A c, d \in Conn : Holds(c) /\ Holds(d) /\ nm[c] = nm[d] => c = d

OwnInv == TypeInv /\ Places /\ Owned /\ NamesHeld

\* What a step must leave alone for everybody to keep what they have.
Untouched(d) == /\ gpc'[d] \in Live <=> gpc[d] \in Live
                /\ gpc'[d] = "none" <=> gpc[d] = "none"
                /\ hpc'[d] \in {"enter", "bye"} <=> hpc[d] \in {"enter", "bye"}
                /\ hpc'[d] = "enter" <=> hpc[d] = "enter"
                /\ hpc[d] \in {"poll", "ready", "timeout", "done"}
                      => hpc'[d] \in {"poll", "ready", "timeout", "done"}
                /\ hpc'[d] \in {"poll", "ready", "timeout"}
                      => hpc[d] \in {"poll", "ready", "timeout"}
                /\ waiting_player = d => hpc'[d] # "done"
                /\ hpc[d] = "done" => hpc'[d] = "done"
                /\ nm'[d] = nm[d] \/ hpc[d] = "hello"

\* The players of a game that is not over are past their handshake.
LEMMA LivePlayers ==
    ASSUME OwnInv, NEW g \in Conn, gpc[g] \in Live
    PROVE  /\ gpc[g] # "none" /\ opp[g] \in Conn /\ opp[g] # g
           /\ hpc[g] = "done" /\ me[g] = g
           /\ hpc[opp[g]] \in {"poll", "ready", "timeout", "done"}
           /\ who[g] = g /\ who[opp[g]] = opp[g]
           /\ Players(g) = {opp[g], g}
<1>1. gpc[g] # "none" /\ opp[g] \in Conn
  BY DEF Live, OwnInv, TypeInv, TypeOK
<1>2. Has(g, g) /\ Has(g, opp[g])
  BY DEF Has
<1>3. who[g] = g /\ who[opp[g]] = opp[g]
  BY <1>1, <1>2 DEF OwnInv, Owned
<1>4. hpc[g] = "done" /\ me[g] = g /\ opp[g] # g
  BY <1>1 DEF OwnInv, Places
<1>5. hpc[opp[g]] \in {"poll", "ready", "timeout", "done"}
  BY <1>1 DEF OwnInv, Places
<1> QED
  BY <1>1, <1>3, <1>4, <1>5 DEF Players

\* If no Player, owner or name changes, the invariant is kept.
LEMMA SameOwners ==
    ASSUME OwnInv, UNCHANGED <<me, who, opp, waiting_player, active_names>>,
           \A d \in Conn : Untouched(d)
    PROVE  Places' /\ Owned' /\ NamesHeld'
<1>1. \A g, d \in Conn : Has(g, d)' <=> Has(g, d)
  BY DEF Has, Untouched
<1>2. Places'
  BY LivePlayers DEF OwnInv, Places, Untouched
<1>3. Owned'
  BY <1>1 DEF OwnInv, Owned, Untouched
<1>4. \A d \in Conn : Holds(d)' <=> Holds(d)
  BY <1>1 DEF Holds, Untouched
<1>5. \A d \in Conn : Holds(d) => hpc[d] # "hello"
  BY LivePlayers DEF OwnInv, Places, Holds, Has
<1>6. \A d \in Conn : Holds(d) => nm'[d] = nm[d]
  BY <1>5 DEF Untouched
<1>7. NamesHeld'
  BY <1>4, <1>6 DEF OwnInv, NamesHeld
<1> QED
  BY <1>2, <1>3, <1>7

\* The steps that change nobody's Player.
LEMMA QuietSteps ==
    ASSUME OwnInv, NEW c \in Conn,
           \/ Accept(c) \/ AcceptAndDrop(c) \/ Hello(c) \/ AlreadyPlaying(c)
           \/ PollReady(c) \/ PollTimeout(c) \/ Matched(c) \/ PollAgain(c)
           \/ \E p \in Conn : GameRead(c, p)
           \/ GameAbort(c) \/ GameClose(c)
           \/ \E m \in Msg : Send(c, m)
           \/ Hangup(c)
    PROVE  /\ UNCHANGED <<me, who, opp, waiting_player, active_names>>
           /\ \A d \in Conn : Untouched(d)
<1> USE DEF OwnInv, TypeInv, TypeOK, Goto, Live, Untouched
<1>1. CASE Accept(c)
  BY <1>1 DEF Accept, CanAccept, Places, game, shared
<1>2. CASE AcceptAndDrop(c)
  BY <1>2 DEF AcceptAndDrop, CanAccept, Places, game, shared
<1>3. CASE Hello(c)
  BY <1>3 DEF Hello, Places, game, shared
<1>4. CASE AlreadyPlaying(c)
  BY <1>4 DEF AlreadyPlaying, Places, game, shared
<1>5. CASE PollReady(c) \/ PollTimeout(c) \/ PollAgain(c)
  BY <1>5 DEF PollReady, PollTimeout, PollAgain, Places, game, shared
<1>6. CASE Matched(c)
  BY <1>6 DEF Matched, Places, game, shared
<1>7. CASE \E p \in Conn : GameRead(c, p)
  BY <1>7 DEF GameRead, GoGame, Places, handler, shared
<1>8. CASE GameAbort(c)
  BY <1>8 DEF GameAbort, GoGame, Places, handler, shared
<1>9. CASE GameClose(c)
  BY <1>9 DEF GameClose, GoGame, Places, handler, shared
<1>10. CASE (\E m \in Msg : Send(c, m)) \/ Hangup(c)
  BY <1>10 DEF Send, Hangup, Places, handler, game, shared
<1> QED
  BY <1>1, <1>2, <1>3, <1>4, <1>5, <1>6, <1>7, <1>8, <1>9, <1>10

\* A Player is allocated and its name listed.
LEMMA RegisterOwners ==
    ASSUME OwnInv, "reuse" \notin Faults, NEW c \in Conn, Register(c)
    PROVE  Places' /\ Owned' /\ NamesHeld'
<1>1. /\ hpc[c] = "register" /\ nm[c] \notin active_names
      /\ active_names' = active_names \cup {nm[c]}
      /\ me' = [me EXCEPT ![c] = c] /\ who' = [who EXCEPT ![c] = c]
      /\ hpc' = [hpc EXCEPT ![c] = "enter"]
      /\ UNCHANGED <<nm, gpc, opp, waiting_player>>
  BY DEF Register, register_name, Address, Goto, game
<1>2. \A g \in Conn : ~Has(g, c)
  BY <1>1, LivePlayers DEF Has
<1>3. waiting_player # c
  BY <1>1 DEF OwnInv, Places
<1>4. \A g, d \in Conn : Has(g, d)' <=> Has(g, d)
  BY <1>1 DEF Has
<1>5. \A d \in Conn \ {c} : /\ hpc'[d] = hpc[d] /\ me'[d] = me[d] /\ who'[d] = who[d]
  BY <1>1 DEF OwnInv, TypeInv, TypeOK
<1>6. hpc'[c] = "enter" /\ me'[c] = c /\ who'[c] = c
  BY <1>1 DEF OwnInv, TypeInv, TypeOK
<1>7. Places'
  BY <1>1, <1>2, <1>3, <1>5, <1>6, LivePlayers DEF OwnInv, Places, Has
<1>8. Owned'
  BY <1>1, <1>2, <1>3, <1>4, <1>5, <1>6 DEF OwnInv, Owned
<1>9. Holds(c)' /\ \A d \in Conn \ {c} : Holds(d)' <=> Holds(d)
  BY <1>1, <1>4, <1>5, <1>6 DEF Holds
<1>10. ~Holds(c)
  BY <1>1, <1>2, <1>3 DEF Holds
<1>11. NamesHeld'
  BY <1>1, <1>9, <1>10 DEF OwnInv, NamesHeld
<1> QED
  BY <1>7, <1>8, <1>11

\* The Player passes from its handler to the slot,
LEMMA WaitOwners ==
    ASSUME OwnInv, NEW c \in Conn, Wait(c)
    PROVE  Places' /\ Owned' /\ NamesHeld'
<1>1. /\ hpc[c] = "enter" /\ waiting_player = NULL /\ waiting_player' = me[c]
      /\ hpc' = [hpc EXCEPT ![c] = "poll"]
      /\ UNCHANGED <<me, who, nm, gpc, opp, active_names>>
  BY DEF Wait, Goto, game
<1>2. waiting_player' = c
  BY <1>1 DEF OwnInv, Places
<1>3. \A g \in Conn : ~Has(g, c)
  BY <1>1, LivePlayers DEF Has
<1>4. \A g, d \in Conn : Has(g, d)' <=> Has(g, d)
  BY <1>1 DEF Has
<1>5. hpc'[c] = "poll" /\ \A d \in Conn \ {c} : hpc'[d] = hpc[d]
  BY <1>1 DEF OwnInv, TypeInv, TypeOK
<1>6. \A d \in Conn : waiting_player # d
  BY <1>1, LobbyAssumption
<1>7. Places'
  BY <1>1, <1>2, <1>3, <1>5, LivePlayers DEF OwnInv, Places, Has
<1>8. Owned'
  BY <1>1, <1>2, <1>3, <1>4, <1>5, <1>6 DEF OwnInv, Owned
<1>9. \A d \in Conn : Holds(d)' <=> Holds(d)
  BY <1>1, <1>2, <1>4, <1>5, <1>6 DEF Holds
<1>10. NamesHeld'
  BY <1>1, <1>9 DEF OwnInv, NamesHeld
<1> QED
  BY <1>7, <1>8, <1>10

\* and from there, with another handler's, to a game.
LEMMA MatchOwners ==
    ASSUME OwnInv, NEW c \in Conn, Match(c)
    PROVE  Places' /\ Owned' /\ NamesHeld'
<1> DEFINE w == waiting_player
<1>1. /\ hpc[c] = "enter" /\ w \in Conn /\ waiting_player' = NULL
      /\ opp' = [opp EXCEPT ![c] = w]
      /\ \E l \in {"play", "lost"} : gpc' = [gpc EXCEPT ![c] = l]
      /\ hpc' = [hpc EXCEPT ![c] = "done"]
      /\ UNCHANGED <<me, who, nm, active_names>>
  BY DEF Match, Goto, OwnInv, TypeInv, TypeOK
<1>2. me[c] = c /\ gpc[c] = "none" /\ w # c /\ hpc[w] \in {"poll", "ready", "timeout"}
  BY <1>1 DEF OwnInv, Places
<1>3. /\ gpc'[c] \in Live /\ gpc'[c] # "none" /\ opp'[c] = w /\ hpc'[c] = "done"
      /\ \A d \in Conn \ {c} : gpc'[d] = gpc[d] /\ opp'[d] = opp[d] /\ hpc'[d] = hpc[d]
  BY <1>1 DEF OwnInv, TypeInv, TypeOK, Live
<1>4. \A g \in Conn : ~Has(g, c) /\ ~Has(g, w)
  BY <1>1, LivePlayers DEF Has, OwnInv, Owned
<1>5. \A g, d \in Conn : Has(g, d)' <=> Has(g, d) \/ (g = c /\ d \in {c, w})
  BY <1>2, <1>3 DEF Has, Live
<1>6. \A d \in Conn : waiting_player' # d
  BY <1>1, LobbyAssumption
<1>7. Places'
  BY <1>1, <1>2, <1>3, <1>6, LivePlayers DEF OwnInv, Places
<1>8. Owned'
  BY <1>1, <1>2, <1>3, <1>4, <1>5, <1>6 DEF OwnInv, Owned
<1>9. \A d \in Conn : Holds(d)' <=> Holds(d)
  BY <1>1, <1>3, <1>5, <1>6 DEF Holds
<1>10. NamesHeld'
  BY <1>1, <1>9 DEF OwnInv, NamesHeld
<1> QED
  BY <1>7, <1>8, <1>10

\* The waiter leaves: its Player is its handler's again, its name free.
LEMMA LeaveOwners ==
    ASSUME OwnInv, NEW c \in Conn, Leave(c)
    PROVE  Places' /\ Owned' /\ NamesHeld'
<1>1. /\ hpc[c] = "ready" /\ waiting_player = me[c] /\ waiting_player' = NULL
      /\ active_names' = active_names \ {nm[who[me[c]]]}
      /\ hpc' = [hpc EXCEPT ![c] = "bye"]
      /\ UNCHANGED <<me, who, nm, gpc, opp>>
  BY DEF Leave, remove_name, Goto, game
<1>2. me[c] = c /\ waiting_player = c
  BY <1>1 DEF OwnInv, Places
<1>3. who[c] = c /\ \A g \in Conn : ~Has(g, c)
  BY <1>2 DEF OwnInv, Owned
<1>4. \A g, d \in Conn : Has(g, d)' <=> Has(g, d)
  BY <1>1 DEF Has
<1>5. hpc'[c] = "bye" /\ \A d \in Conn \ {c} : hpc'[d] = hpc[d]
  BY <1>1 DEF OwnInv, TypeInv, TypeOK
<1>6. \A d \in Conn : waiting_player' # d
  BY <1>1, LobbyAssumption
<1>7. Places'
  BY <1>1, <1>2, <1>3, <1>5, <1>6, LivePlayers DEF OwnInv, Places, Has
<1>8. Owned'
  BY <1>1, <1>2, <1>3, <1>4, <1>5, <1>6 DEF OwnInv, Owned
<1>9. Holds(c) /\ ~Holds(c)' /\ \A d \in Conn \ {c} : Holds(d)' <=> Holds(d)
  BY <1>2, <1>3, <1>4, <1>5, <1>6 DEF Holds
<1>10. active_names' = active_names \ {nm[c]}
  BY <1>1, <1>2, <1>3
<1>11. NamesHeld'
  BY <1>1, <1>9, <1>10 DEF OwnInv, NamesHeld
<1> QED
  BY <1>7, <1>8, <1>11

\* The handler frees it.
LEMMA ByeOwners ==
    ASSUME OwnInv, NEW c \in Conn, Bye(c)
    PROVE  Places' /\ Owned' /\ NamesHeld'
<1>1. /\ hpc[c] = "bye" /\ who' = [who EXCEPT ![me[c]] = NULL]
      /\ hpc' = [hpc EXCEPT ![c] = "done"]
      /\ UNCHANGED <<me, nm, gpc, opp, waiting_player, active_names>>
  BY DEF Bye, Goto, game
<1>2. me[c] = c /\ waiting_player # c
  BY <1>1 DEF OwnInv, Places
<1>3. \A g \in Conn : ~Has(g, c)
  BY <1>1, LivePlayers DEF Has
<1>4. \A g, d \in Conn : Has(g, d)' <=> Has(g, d)
  BY <1>1 DEF Has
<1>5. /\ hpc'[c] = "done" /\ who'[c] = NULL
      /\ \A d \in Conn \ {c} : hpc'[d] = hpc[d] /\ who'[d] = who[d]
  BY <1>1, <1>2 DEF OwnInv, TypeInv, TypeOK
<1>6. NULL # c
  BY LobbyAssumption
<1>7. Places'
  BY <1>1, <1>2, <1>3, <1>5, LivePlayers DEF OwnInv, Places, Has
<1>8. Owned'
  BY <1>1, <1>2, <1>3, <1>4, <1>5, <1>6 DEF OwnInv, Owned
<1>9. \A d \in Conn : Holds(d)' <=> Holds(d)
  BY <1>1, <1>4, <1>5 DEF Holds
<1>10. NamesHeld'
  BY <1>1, <1>9 DEF OwnInv, NamesHeld
<1> QED
  BY <1>7, <1>8, <1>10

\* The game removes both names and frees both Players.
LEMMA UnregOwners ==
    ASSUME OwnInv, NEW c \in Conn, GameUnreg(c)
    PROVE  Places' /\ Owned' /\ NamesHeld'
<1>1. gpc[c] \in Live
  BY DEF GameUnreg, Live
<1>2. /\ Players(c) = {opp[c], c} /\ me[c] = c /\ opp[c] \in Conn
      /\ hpc[c] = "done" /\ hpc[opp[c]] # "enter" /\ hpc[opp[c]] # "bye"
  BY <1>1, LivePlayers
<1>3. /\ active_names' = active_names \ {nm[p] : p \in {opp[c], c}}
      /\ who' = [a \in Conn |-> IF a \in {opp[c], c} THEN NULL ELSE who[a]]
      /\ gpc' = [gpc EXCEPT ![c] = "over"]
      /\ UNCHANGED <<hpc, me, nm, opp, waiting_player>>
  BY <1>2 DEF GameUnreg, FreePlayers, remove_name, GoGame, handler
<1>4. gpc'[c] = "over" /\ \A d \in Conn \ {c} : gpc'[d] = gpc[d]
  BY <1>3 DEF OwnInv, TypeInv, TypeOK
<1>5. Has(c, c) /\ Has(c, opp[c])
  BY <1>1 DEF Has
<1>6. waiting_player \notin {opp[c], c}
  BY <1>2, <1>5 DEF OwnInv, Owned
<1>7. \A g, d \in Conn : Has(g, d)' <=> g # c /\ Has(g, d)
  BY <1>3, <1>4 DEF Has, Live
<1>8. \A g, d \in Conn : Has(g, d)' => d \notin {opp[c], c}
  BY <1>2, <1>5, <1>7 DEF OwnInv, Owned
<1>9. \A d \in Conn \ {opp[c], c} : ~Has(c, d)
  BY DEF Has
<1>10. NULL \notin Conn
  BY LobbyAssumption
<1>11. Places'
  BY <1>1, <1>3, <1>4, <1>10 DEF OwnInv, Places, Live
<1>12. Owned'
  BY <1>2, <1>3, <1>6, <1>7, <1>8, <1>9, <1>10 DEF OwnInv, Owned
<1>13. /\ \A d \in Conn : Holds(d)' <=> Holds(d) /\ d \notin {opp[c], c}
       /\ Holds(c) /\ Holds(opp[c])
  BY <1>2, <1>3, <1>5, <1>6, <1>7, <1>8, <1>9 DEF Holds
<1>14. NamesHeld'
  BY <1>2, <1>3, <1>13 DEF OwnInv, NamesHeld
<1> QED
  BY <1>11, <1>12, <1>14

------------------------------------------------------------------------------
\* At the start nobody has a Player.
LEMMA InitOwnInv == Init => OwnInv
<1> SUFFICES ASSUME Init PROVE OwnInv
  OBVIOUS
<1>1. TypeInv
  BY InitTypes
<1>2. \A c \in Conn : /\ hpc[c] = "new" /\ me[c] = NULL /\ who[c] = NULL
                      /\ gpc[c] = "none" /\ c # NULL
  BY LobbyAssumption DEF Init
<1>3. waiting_player = NULL /\ active_names = {}
  BY DEF Init
<1>4. \A g, c \in Conn : ~Has(g, c)
  BY <1>2 DEF Has, Live
<1>5. Places
  BY <1>2, <1>3 DEF Places, Live
<1>6. Owned
  BY <1>2, <1>3, <1>4 DEF Owned
<1>7. NamesHeld
  BY <1>2, <1>3, <1>4 DEF NamesHeld, Holds
<1> QED
  BY <1>1, <1>5, <1>6, <1>7 DEF OwnInv

\* Every step keeps the owners and the names.
LEMMA OwnStep ==
    ASSUME OwnInv, [Next]_vars, "reuse" \notin Faults
    PROVE  OwnInv'
<1>1. TypeInv'
  BY TypeStep DEF OwnInv
<1>2. CASE UNCHANGED vars
  <2>1. UNCHANGED <<hpc, nm, me, who, gpc, opp, waiting_player, active_names>>
    BY <1>2 DEF vars, handler, game, shared
  <2>2. \A d \in Conn : Untouched(d)
    BY <2>1 DEF Untouched, OwnInv, Places
  <2> QED
    BY <1>1, <2>1, <2>2, SameOwners DEF OwnInv
<1>3. CASE AllServed
  BY <1>2, <1>3 DEF AllServed
<1>4. ASSUME NEW c \in Conn,
             \/ Accept(c) \/ AcceptAndDrop(c) \/ Hello(c) \/ AlreadyPlaying(c)
             \/ PollReady(c) \/ PollTimeout(c) \/ Matched(c) \/ PollAgain(c)
             \/ \E p \in Conn : GameRead(c, p)
             \/ GameAbort(c) \/ GameClose(c)
             \/ \E m \in Msg : Send(c, m)
             \/ Hangup(c)
      PROVE  OwnInv'
  BY <1>1, <1>4, QuietSteps, SameOwners DEF OwnInv
<1>5. ASSUME NEW c \in Conn,
             Register(c) \/ Wait(c) \/ Match(c) \/ Leave(c) \/ Bye(c) \/ GameUnreg(c)
      PROVE  OwnInv'
  BY <1>1, <1>5, RegisterOwners, WaitOwners, MatchOwners, LeaveOwners, ByeOwners, UnregOwners
     DEF OwnInv
<1> QED
  BY <1>2, <1>3, <1>4, <1>5 DEF Next, Handler, GameEnds

\* So they hold in every state.
LEMMA OwnInvariant ==
    ASSUME "reuse" \notin Faults
    PROVE  Spec => []OwnInv
<1>1. OwnInv /\ [Next]_vars => OwnInv'
  BY OwnStep
<1> QED
  BY <1>1, InitOwnInv, PTL DEF Spec

\* What the code keeps in pointers is what the invariant says of connections.
LEMMA Identities ==
    ASSUME OwnInv
    PROVE  \A c \in Conn :
              /\ Slot(c) <=> waiting_player = c
              /\ \A ls \in SUBSET Live :
                    InGame(c, ls) <=> \E g \in Conn : gpc[g] \in ls /\ c \in {opp[g], g}
              /\ HoldsName(c) <=> Holds(c)
<1> SUFFICES ASSUME NEW c \in Conn
             PROVE  /\ Slot(c) <=> waiting_player = c
                    /\ \A ls \in SUBSET Live :
                          InGame(c, ls) <=> \E g \in Conn : gpc[g] \in ls /\ c \in {opp[g], g}
                    /\ HoldsName(c) <=> Holds(c)
  OBVIOUS
<1>1. Slot(c) <=> waiting_player = c
  <2>1. waiting_player # NULL => waiting_player \in Conn /\ who[waiting_player] = waiting_player
    BY DEF OwnInv, TypeInv, TypeOK, Owned
  <2>2. c # NULL
    BY LobbyAssumption
  <2> QED
    BY <2>1, <2>2 DEF Slot
<1>2. ASSUME NEW ls \in SUBSET Live
      PROVE  InGame(c, ls) <=> \E g \in Conn : gpc[g] \in ls /\ c \in {opp[g], g}
  BY <1>2, LivePlayers DEF InGame
<1>3. HoldsName(c) <=> Holds(c)
  BY <1>1, <1>2 DEF HoldsName, Holds, Has, Live
<1> QED
  BY <1>1, <1>2, <1>3

\* No Player is freed twice, used when it is freed, or forgotten: it has one
\* owner (nimd.c 320-336, 353, 359-364, 272-273), as long as malloc gives no
\* address a second time.
THEOREM OnePlayerOneOwner ==
    ASSUME "reuse" \notin Faults
    PROVE  Spec => []OneOwner
<1>1. ASSUME OwnInv PROVE OneOwner
  <2>1. ASSUME NEW a \in Conn
        PROVE  IF who[a] = NULL THEN Owners(a) = {} ELSE \E o \in Owners(a) : Owners(a) = {o}
    <3> DEFINE H == {<<"handler", c>> : c \in {d \in Conn : hpc[d] \in {"enter", "bye"} /\ me[d] = a}}
               G == {<<"game", g>> : g \in {h \in Conn : /\ gpc[h] \in {"play", "end", "unreg", "lost"}
                                                         /\ a \in {opp[h], me[h]}}}
               S == {<<"slot", p>> : p \in {waiting_player} \cap {a}}
    <3>1. Owners(a) = H \cup G \cup S
      BY DEF Owners
    <3>2. H = IF hpc[a] \in {"enter", "bye"} THEN {<<"handler", a>>} ELSE {}
      BY <1>1 DEF OwnInv, Places
    <3>3. G = {<<"game", g>> : g \in {h \in Conn : Has(h, a)}}
      BY <1>1, LivePlayers DEF Has, Live
    <3>4. S = IF waiting_player = a THEN {<<"slot", a>>} ELSE {}
      OBVIOUS
    <3>5. \A g \in Conn : Has(g, a) => hpc[a] \notin {"enter", "bye"}
      BY <1>1, LivePlayers DEF Has
    <3>6. waiting_player = a => hpc[a] \notin {"enter", "bye"}
      BY <1>1 DEF OwnInv, Places
    <3>7. who[a] = NULL <=> who[a] # a
      BY <1>1, LobbyAssumption DEF OwnInv, Places
    <3>8. CASE who[a] = NULL
      BY <1>1, <3>1, <3>2, <3>3, <3>4, <3>7, <3>8 DEF OwnInv, Owned
    <3>9. CASE who[a] = a /\ hpc[a] \in {"enter", "bye"}
      BY <1>1, <3>1, <3>2, <3>3, <3>4, <3>5, <3>6, <3>7, <3>9
    <3>10. CASE who[a] = a /\ waiting_player = a
      <4>1. G = {}
        BY <1>1, <3>3, <3>10 DEF OwnInv, Owned
      <4>2. H = {} /\ S = {<<"slot", a>>}
        BY <3>2, <3>4, <3>6, <3>10
      <4>3. Owners(a) = {<<"slot", a>>}
        BY <3>1, <4>1, <4>2
      <4> QED
        BY <3>7, <3>10, <4>3
    <3>11. CASE who[a] = a /\ \E g \in Conn : Has(g, a)
      <4>1. PICK g \in Conn : Has(g, a)
        BY <3>11
      <4>2. {h \in Conn : Has(h, a)} = {g}
        BY <1>1, <4>1 DEF OwnInv, Owned
      <4>3. waiting_player # a
        BY <1>1, <4>1 DEF OwnInv, Owned
      <4>4. G = {<<"game", g>>}
        BY <3>3, <4>2
      <4>5. H = {} /\ S = {}
        BY <3>2, <3>4, <3>5, <4>1, <4>3
      <4>6. Owners(a) = {<<"game", g>>}
        BY <3>1, <4>4, <4>5
      <4> QED
        BY <3>7, <3>11, <4>6
    <3> QED
      BY <1>1, <3>7, <3>8, <3>9, <3>10, <3>11 DEF OwnInv, Owned
  <2>2. \A g \in Conn : gpc[g] \in {"play", "end", "unreg"} => opp[g] # me[g]
    BY <1>1, LivePlayers DEF Live
  <2> QED
    BY <2>1, <2>2 DEF OneOwner
<1> QED
  BY <1>1, OwnInvariant, PTL

\* The list of names is exactly the names of those who wait or play, and no two
\* of them have the same (nimd.c 303-309, 334-335, 267-270).
THEOREM NamesAreExact ==
    ASSUME "reuse" \notin Faults
    PROVE  Spec => []NamesExact
<1>1. ASSUME OwnInv PROVE NamesExact
  <2>1. \A c \in Conn : HoldsName(c) <=> Holds(c)
    BY <1>1, Identities
  <2>2. NamesHeld
    BY <1>1 DEF OwnInv
  <2>3. active_names = {nm[c] : c \in {d \in Conn : HoldsName(d)}}
    BY <2>1, <2>2 DEF NamesHeld
  <2> QED
    BY <2>1, <2>2, <2>3 DEF NamesExact, NamesHeld
<1> QED
  BY <1>1, OwnInvariant, PTL

------------------------------------------------------------------------------
\* The connections whose descriptor some thread will still close, and what holds
\* of open descriptors, whatever the clients send.
Keeps(c) == \/ hpc[c] \in {"hello", "register", "enter", "bye"}
            \/ waiting_player = c
            \/ \E g \in Conn : gpc[g] \in {"play", "lost", "end"} /\ c \in {opp[g], g}

FdHeld == \A f \in Fd, d \in Conn : fdt[f] = d => fd[d] = f /\ Keeps(d)

\* A step that closes the descriptors of P, which are not served any more; only
\* a client that breaks the framing is closed and still served.
Closing(P) ==
    /\ fd' = fd
    /\ fdt' = [f \in Fd |-> IF \E p \in P : fd[p] = f THEN NULL ELSE fdt[f]]
    /\ \A p \in P : Keeps(p)
    /\ \A d \in Conn : /\ Keeps(d)' => Keeps(d)
                       /\ Keeps(d) => Keeps(d)' \/ d \in P
    /\ "garbage" \notin Faults => \A p \in P : ~Keeps(p)'

\* A step that closes nothing and leaves everybody with the thread that serves it.
LEMMA ClosingNothing ==
    ASSUME fd' = fd, fdt' = fdt, TypeInv, \A d \in Conn : Keeps(d)' <=> Keeps(d)
    PROVE  \E P \in SUBSET Conn : Closing(P)
<1>1. fdt' = [f \in Fd |-> IF \E p \in {} : fd[p] = f THEN NULL ELSE fdt[f]]
  BY DEF TypeInv, TypeOK
<1>2. Closing({})
  BY <1>1 DEF Closing
<1> QED
  BY <1>2

\* A handler that ends closes its client's descriptor.
LEMMA ClosingOwn ==
    ASSUME OwnInv, NEW c \in Conn, fd' = fd,
           fdt' = [f \in Fd |-> IF f \in {fd[c]} THEN NULL ELSE fdt[f]],
           hpc[c] \in {"hello", "register", "bye"}, hpc' = [hpc EXCEPT ![c] = "done"],
           UNCHANGED <<gpc, opp, waiting_player>>
    PROVE  \E P \in SUBSET Conn : Closing(P)
<1>1. Keeps(c)
  BY DEF Keeps
<1>2. hpc'[c] = "done" /\ \A d \in Conn \ {c} : hpc'[d] = hpc[d]
  BY DEF OwnInv, TypeInv, TypeOK
<1>3. waiting_player # c /\ \A g \in Conn : ~Has(g, c)
  BY LivePlayers DEF OwnInv, Places, Has
<1>4. ~Keeps(c)'
  BY <1>2, <1>3 DEF Keeps, Has, Live
<1>5. \A d \in Conn \ {c} : Keeps(d)' <=> Keeps(d)
  BY <1>2 DEF Keeps
<1>6. Closing({c})
  BY <1>1, <1>4, <1>5 DEF Closing
<1> QED
  BY <1>6

\* Each step of a handler closes its own client's descriptor or none.
LEMMA HandlerCloses ==
    ASSUME OwnInv, NEW c \in Conn, AcceptAndDrop(c) \/ Handler(c)
    PROVE  \E P \in SUBSET Conn : Closing(P)
<1> USE DEF Goto
<1>1. CASE AcceptAndDrop(c) \/ PollReady(c) \/ PollTimeout(c) \/ Matched(c) \/ PollAgain(c)
  <2>1. /\ fd' = fd /\ fdt' = fdt
        /\ \A d \in Conn : hpc'[d] # hpc[d] =>
              /\ hpc[d] \notin {"hello", "register", "enter", "bye"}
              /\ hpc'[d] \notin {"hello", "register", "enter", "bye"}
        /\ UNCHANGED <<gpc, opp, waiting_player>>
    BY <1>1 DEF AcceptAndDrop, CanAccept, PollReady, PollTimeout, Matched, PollAgain,
                game, shared, net, OwnInv, TypeInv, TypeOK
  <2>2. \A d \in Conn : Keeps(d)' <=> Keeps(d)
    BY <2>1 DEF Keeps
  <2> QED
    BY <2>1, <2>2, ClosingNothing DEF OwnInv
<1>2. CASE Hello(c) /\ Received(c).type = "OPEN"
  <2>1. /\ fd' = fd /\ fdt' = [f \in Fd |-> IF f \in {} THEN NULL ELSE fdt[f]]
        /\ hpc[c] = "hello" /\ hpc' = [hpc EXCEPT ![c] = "register"]
        /\ UNCHANGED <<gpc, opp, waiting_player>>
    BY <1>2 DEF Hello, ReadAndClose, game, shared
  <2>2. fdt' = fdt
    BY <2>1 DEF OwnInv, TypeInv, TypeOK
  <2>3. \A d \in Conn : Keeps(d)' <=> Keeps(d)
    BY <2>1 DEF Keeps, OwnInv, TypeInv, TypeOK
  <2> QED
    BY <2>1, <2>2, <2>3, ClosingNothing DEF OwnInv
<1>3. CASE Hello(c) /\ Received(c).type # "OPEN"
  BY <1>3, ClosingOwn DEF Hello, ReadAndClose, game, shared
<1>4. CASE Register(c)
  <2>1. /\ fd' = fd /\ fdt' = fdt
        /\ hpc[c] = "register" /\ hpc' = [hpc EXCEPT ![c] = "enter"]
        /\ UNCHANGED <<gpc, opp, waiting_player>>
    BY <1>4 DEF Register, game, net
  <2>2. \A d \in Conn : Keeps(d)' <=> Keeps(d)
    BY <2>1 DEF Keeps, OwnInv, TypeInv, TypeOK
  <2> QED
    BY <2>1, <2>2, ClosingNothing DEF OwnInv
<1>5. CASE AlreadyPlaying(c)
  BY <1>5, ClosingOwn DEF AlreadyPlaying, Close, game, shared
<1>6. CASE Wait(c)
  <2>1. /\ fd' = fd /\ fdt' = fdt
        /\ hpc[c] = "enter" /\ hpc' = [hpc EXCEPT ![c] = "poll"]
        /\ waiting_player = NULL /\ waiting_player' = c
        /\ UNCHANGED <<gpc, opp>>
    BY <1>6 DEF Wait, game, net, OwnInv, Places
  <2>2. \A d \in Conn : Keeps(d)' <=> Keeps(d)
    BY <2>1, LobbyAssumption DEF Keeps, OwnInv, TypeInv, TypeOK
  <2> QED
    BY <2>1, <2>2, ClosingNothing DEF OwnInv
<1>7. CASE Match(c)
  <2>1. /\ fd' = fd /\ fdt' = fdt
        /\ hpc[c] = "enter" /\ hpc' = [hpc EXCEPT ![c] = "done"]
        /\ waiting_player' = NULL /\ waiting_player # NULL
        /\ opp' = [opp EXCEPT ![c] = waiting_player]
        /\ \E l \in {"play", "lost"} : gpc' = [gpc EXCEPT ![c] = l]
    BY <1>7 DEF Match, net
  <2>2. /\ gpc[c] = "none" /\ gpc'[c] \in {"play", "lost"} /\ opp'[c] = waiting_player
        /\ hpc'[c] = "done" /\ waiting_player \in Conn
        /\ \A d \in Conn \ {c} : gpc'[d] = gpc[d] /\ opp'[d] = opp[d] /\ hpc'[d] = hpc[d]
    BY <2>1 DEF OwnInv, TypeInv, TypeOK, Places
  <2>3. \A g, d \in Conn : gpc'[g] \in {"play", "lost", "end"} /\ d \in {opp'[g], g}
           <=> \/ g = c /\ d \in {waiting_player, c}
               \/ gpc[g] \in {"play", "lost", "end"} /\ d \in {opp[g], g}
    BY <2>2
  <2>4. \A d \in Conn : Keeps(d)' <=> Keeps(d)
    BY <2>1, <2>2, <2>3, LobbyAssumption DEF Keeps
  <2> QED
    BY <2>1, <2>4, ClosingNothing DEF OwnInv
<1>8. CASE Leave(c)
  <2>1. /\ fd' = fd /\ fdt' = fdt
        /\ hpc[c] = "ready" /\ hpc' = [hpc EXCEPT ![c] = "bye"]
        /\ waiting_player = c /\ waiting_player' = NULL
        /\ UNCHANGED <<gpc, opp>>
    BY <1>8 DEF Leave, game, net, OwnInv, Places
  <2>2. \A d \in Conn : Keeps(d)' <=> Keeps(d)
    BY <2>1, LobbyAssumption DEF Keeps, OwnInv, TypeInv, TypeOK
  <2> QED
    BY <2>1, <2>2, ClosingNothing DEF OwnInv
<1>9. CASE Bye(c)
  BY <1>9, ClosingOwn DEF Bye, ReadAndClose, game
<1> QED
  BY <1>1, <1>2, <1>3, <1>4, <1>5, <1>6, <1>7, <1>8, <1>9 DEF Handler

\* A game's closes those of its players, a client's none.
LEMMA GameCloses ==
    ASSUME OwnInv, NEW c \in Conn,
           \/ \E p \in Conn : GameRead(c, p)
           \/ GameAbort(c) \/ GameEnds(c)
           \/ \E m \in Msg : Send(c, m)
           \/ Hangup(c)
    PROVE  \E P \in SUBSET Conn : Closing(P)
<1>1. ASSUME UNCHANGED <<hpc, opp, waiting_player>>, gpc[c] \in {"play", "end"},
             gpc' = [gpc EXCEPT ![c] = "play"] \/ gpc' = [gpc EXCEPT ![c] = "end"]
      PROVE  \A d \in Conn : Keeps(d)' <=> Keeps(d)
  BY <1>1 DEF Keeps, OwnInv, TypeInv, TypeOK
<1>2. ASSUME NEW p \in Conn, GameRead(c, p) PROVE \E P \in SUBSET Conn : Closing(P)
  <2>1. \A d \in Conn : Keeps(d)' <=> Keeps(d)
    BY <1>1, <1>2 DEF GameRead, GoGame, handler, shared
  <2>2. gpc[c] = "play" /\ p \in Players(c) /\ fd' = fd
    BY <1>2 DEF GameRead, handler
  <2>3. Keeps(p)
    BY <2>2, LivePlayers DEF Keeps, Live
  <2>4. CASE Received(p).type = "BAD"
    <3>1. fdt' = [f \in Fd |-> IF f \in {fd[p]} THEN NULL ELSE fdt[f]]
      BY <1>2, <2>4 DEF GameRead, ReadAndClose
    <3>2. "garbage" \in Faults
      <4>1. Received(p) # Eof
        BY <2>4 DEF Eof
      <4>2. Received(p) \in Msg
        BY <4>1, SockType DEF Received, OwnInv, TypeInv, TypeOK
      <4> QED
        BY <2>4, <4>2 DEF Msg
    <3>3. Closing({p})
      BY <2>1, <2>2, <2>3, <3>1, <3>2 DEF Closing
    <3> QED
      BY <3>3
  <2>5. CASE Received(p).type # "BAD"
    <3>1. fdt' = [f \in Fd |-> IF f \in {} THEN NULL ELSE fdt[f]]
      BY <1>2, <2>5 DEF GameRead, ReadAndClose
    <3>2. fdt' = fdt
      BY <3>1 DEF OwnInv, TypeInv, TypeOK
    <3> QED
      BY <2>1, <2>2, <3>2, ClosingNothing DEF OwnInv
  <2> QED
    BY <2>4, <2>5
<1>3. CASE GameAbort(c)
  <2>1. \A d \in Conn : Keeps(d)' <=> Keeps(d)
    BY <1>1, <1>3 DEF GameAbort, GoGame, handler, shared
  <2> QED
    BY <1>3, <2>1, ClosingNothing DEF GameAbort, handler, net, OwnInv
<1>4. CASE GameClose(c)
  <2>1. /\ gpc[c] = "end" /\ gpc' = [gpc EXCEPT ![c] = "unreg"]
        /\ UNCHANGED <<hpc, fd, opp, waiting_player>>
        /\ fdt' = [f \in Fd |-> IF f \in {fd[p] : p \in Players(c)} THEN NULL ELSE fdt[f]]
    BY <1>4 DEF GameClose, GoGame, Close, handler, shared
  <2>2. /\ Players(c) = {opp[c], c} /\ opp[c] \in Conn /\ hpc[c] = "done"
        /\ hpc[opp[c]] \in {"poll", "ready", "timeout", "done"}
    BY <2>1, LivePlayers DEF Live
  <2>3. Has(c, c) /\ Has(c, opp[c])
    BY <2>1 DEF Has, Live
  <2>4. waiting_player \notin {opp[c], c}
    BY <2>2, <2>3 DEF OwnInv, Owned
  <2>5. \A g \in Conn, d \in {opp[c], c} : Has(g, d) => g = c
    BY <2>2, <2>3 DEF OwnInv, Owned
  <2>6. gpc'[c] = "unreg" /\ \A g \in Conn \ {c} : gpc'[g] = gpc[g]
    BY <2>1 DEF OwnInv, TypeInv, TypeOK
  <2>7. \A d \in Players(c) : Keeps(d) /\ ~Keeps(d)'
    BY <2>1, <2>2, <2>4, <2>5, <2>6 DEF Keeps, Has, Live
  <2>8. \A d \in Conn \ Players(c) : Keeps(d)' <=> Keeps(d)
    BY <2>1, <2>2, <2>6 DEF Keeps
  <2>9. Closing(Players(c))
    BY <2>1, <2>7, <2>8 DEF Closing
  <2> QED
    BY <2>2, <2>9
<1>5. CASE GameUnreg(c)
  <2>1. /\ gpc[c] = "unreg" /\ gpc' = [gpc EXCEPT ![c] = "over"]
        /\ UNCHANGED <<hpc, fd, fdt, opp, waiting_player>>
    BY <1>5 DEF GameUnreg, GoGame, handler, net
  <2>2. \A d \in Conn : Keeps(d)' <=> Keeps(d)
    BY <2>1 DEF Keeps, OwnInv, TypeInv, TypeOK
  <2> QED
    BY <2>1, <2>2, ClosingNothing DEF OwnInv
<1>6. CASE (\E m \in Msg : Send(c, m)) \/ Hangup(c)
  <2>1. UNCHANGED <<hpc, fd, fdt, gpc, opp, waiting_player>>
    BY <1>6 DEF Send, Hangup, handler, game, shared
  <2>2. \A d \in Conn : Keeps(d)' <=> Keeps(d)
    BY <2>1 DEF Keeps
  <2> QED
    BY <2>1, <2>2, ClosingNothing DEF OwnInv
<1> QED
  BY <1>2, <1>3, <1>4, <1>5, <1>6 DEF GameEnds

\* Every step but accept's closes the descriptors of some connections.
LEMMA StepCloses ==
    ASSUME OwnInv, [Next]_vars
    PROVE  \/ \E c \in Conn : Accept(c)
           \/ \E P \in SUBSET Conn : Closing(P)
<1>1. CASE UNCHANGED vars
  <2>1. UNCHANGED <<hpc, fd, fdt, gpc, opp, waiting_player>>
    BY <1>1 DEF vars, handler, game, shared, net
  <2>2. \A d \in Conn : Keeps(d)' <=> Keeps(d)
    BY <2>1 DEF Keeps
  <2> QED
    BY <2>1, <2>2, ClosingNothing DEF OwnInv
<1>2. CASE AllServed
  BY <1>1, <1>2 DEF AllServed
<1> QED
  BY <1>1, <1>2, HandlerCloses, GameCloses DEF Next

\* accept gives a client a descriptor nobody has.
LEMMA AcceptEffect ==
    ASSUME OwnInv, NEW c \in Conn, Accept(c)
    PROVE  /\ Lowest \in Fd /\ fdt[Lowest] = NULL
           /\ fd' = [fd EXCEPT ![c] = Lowest] /\ fdt' = [fdt EXCEPT ![Lowest] = c]
           /\ ~Keeps(c) /\ Keeps(c)'
           /\ \A d \in Conn \ {c} : Keeps(d)' <=> Keeps(d)
<1>1. /\ Free # {} /\ hpc[c] = "new" /\ hpc' = [hpc EXCEPT ![c] = "hello"]
      /\ fd' = [fd EXCEPT ![c] = Lowest] /\ fdt' = [fdt EXCEPT ![Lowest] = c]
      /\ UNCHANGED <<gpc, opp, waiting_player>>
  BY DEF Accept, CanAccept, Goto, game, shared
<1>2. hpc'[c] = "hello" /\ \A d \in Conn \ {c} : hpc'[d] = hpc[d]
  BY <1>1 DEF OwnInv, TypeInv, TypeOK
<1>3. waiting_player # c /\ \A g \in Conn : ~Has(g, c)
  BY <1>1, LivePlayers DEF OwnInv, Places, Has
<1>4. ~Keeps(c) /\ Keeps(c)'
  BY <1>1, <1>2, <1>3 DEF Keeps, Has, Live
<1>5. \A d \in Conn \ {c} : Keeps(d)' <=> Keeps(d)
  BY <1>1, <1>2 DEF Keeps
<1> QED
  BY <1>1, <1>4, <1>5, LowestFree

\* Every step keeps a server thread behind each open descriptor.
LEMMA FdStep ==
    ASSUME OwnInv, FdHeld, [Next]_vars
    PROVE  FdHeld'
<1>1. ASSUME NEW c \in Conn, Accept(c) PROVE FdHeld'
  <2>1. \A f \in Fd : fdt[f] # c
    BY <1>1, AcceptEffect DEF FdHeld
  <2>2. \A f \in Fd : fdt'[f] = IF f = Lowest THEN c ELSE fdt[f]
    BY <1>1, AcceptEffect DEF OwnInv, TypeInv, TypeOK
  <2>3. \A d \in Conn : fd'[d] = IF d = c THEN Lowest ELSE fd[d]
    BY <1>1, AcceptEffect DEF OwnInv, TypeInv, TypeOK
  <2> QED
    BY <1>1, <2>1, <2>2, <2>3, AcceptEffect DEF FdHeld
<1>2. ASSUME NEW P \in SUBSET Conn, Closing(P) PROVE FdHeld'
  <2> SUFFICES ASSUME NEW f \in Fd, NEW d \in Conn, fdt'[f] = d
               PROVE  fd'[d] = f /\ Keeps(d)'
    BY DEF FdHeld
  <2>1. fdt[f] = d /\ fd' = fd /\ \A p \in P : fd[p] # f
    BY <1>2, LobbyAssumption DEF Closing
  <2>2. fd[d] = f /\ Keeps(d)
    BY <2>1 DEF FdHeld
  <2>3. Keeps(d)'
    BY <1>2, <2>1, <2>2 DEF Closing
  <2> QED
    BY <2>1, <2>2, <2>3
<1> QED
  BY <1>1, <1>2, StepCloses

\* No descriptor is leaked: an open one is that of a connection some thread will
\* still close (nimd.c 264-265, 289-307, 353), whatever the clients send.
THEOREM DescriptorsReturned ==
    ASSUME "reuse" \notin Faults
    PROVE  Spec => []NoFdLeak
<1>1. Init => OwnInv /\ FdHeld
  BY InitOwnInv, LobbyAssumption DEF Init, FdHeld
<1>2. (OwnInv /\ FdHeld) /\ [Next]_vars => (OwnInv /\ FdHeld)'
  BY OwnStep, FdStep
<1>3. ASSUME OwnInv, FdHeld PROVE NoFdLeak
  <2> SUFFICES ASSUME NEW f \in Fd, fdt[f] # NULL
               PROVE  fd[fdt[f]] = f /\ (Served(fdt[f]) \/ InGame(fdt[f], {"end"}))
    BY DEF NoFdLeak
  <2>1. fdt[f] \in Conn /\ fd[fdt[f]] = f /\ Keeps(fdt[f])
    BY <1>3 DEF FdHeld, OwnInv, TypeInv, TypeOK
  <2>2. {"play", "lost"} \in SUBSET Live /\ {"end"} \in SUBSET Live
    BY DEF Live
  <2> QED
    BY <1>3, <2>1, <2>2, Identities DEF Keeps, Served
<1> QED
  BY <1>1, <1>2, <1>3, PTL DEF Spec

------------------------------------------------------------------------------
\* With well-framed clients every connection that is served has its descriptor.
Sockets == \A c \in Conn : Keeps(c) => fd[c] \in Fd /\ fdt[fd[c]] = c

\* At the start nobody is served.
LEMMA InitSockets == Init => Sockets
<1> SUFFICES ASSUME Init PROVE Sockets
  OBVIOUS
<1>1. \A c \in Conn : hpc[c] = "new" /\ gpc[c] = "none" /\ waiting_player # c
  BY LobbyAssumption DEF Init
<1> QED
  BY <1>1 DEF Sockets, Keeps

\* Every step keeps each client's socket behind its descriptor.
LEMMA SocketStep ==
    ASSUME OwnInv, Sockets, [Next]_vars, "garbage" \notin Faults
    PROVE  Sockets'
<1>1. ASSUME NEW c \in Conn, Accept(c) PROVE Sockets'
  <2> SUFFICES ASSUME NEW d \in Conn, Keeps(d)'
               PROVE  fd'[d] \in Fd /\ fdt'[fd'[d]] = d
    BY DEF Sockets
  <2>1. CASE d = c
    BY <1>1, <2>1, AcceptEffect DEF OwnInv, TypeInv, TypeOK
  <2>2. CASE d # c
    <3>1. fd'[d] = fd[d] /\ fd[d] \in Fd /\ fdt[fd[d]] = d
      BY <1>1, <2>2, AcceptEffect DEF Sockets, OwnInv, TypeInv, TypeOK
    <3>2. fd[d] # Lowest
      BY <1>1, <3>1, AcceptEffect, LobbyAssumption
    <3> QED
      BY <1>1, <3>1, <3>2, AcceptEffect DEF OwnInv, TypeInv, TypeOK
  <2> QED
    BY <2>1, <2>2
<1>2. ASSUME NEW P \in SUBSET Conn, Closing(P) PROVE Sockets'
  <2> SUFFICES ASSUME NEW d \in Conn, Keeps(d)'
               PROVE  fd'[d] \in Fd /\ fdt'[fd'[d]] = d
    BY DEF Sockets
  <2>1. Keeps(d) /\ d \notin P /\ fd' = fd
    BY <1>2 DEF Closing
  <2>2. fd[d] \in Fd /\ fdt[fd[d]] = d
    BY <2>1 DEF Sockets
  <2>3. \A p \in P : fd[p] # fd[d]
    BY <1>2, <2>1, <2>2 DEF Closing, Sockets
  <2> QED
    BY <1>2, <2>1, <2>2, <2>3 DEF Closing
<1> QED
  BY <1>1, <1>2, StepCloses

\* A connection is closed by nobody but the threads that serve it, if no client
\* breaks the framing (nimd.c 264-265).
THEOREM SocketsStayOwn ==
    ASSUME "reuse" \notin Faults, "garbage" \notin Faults
    PROVE  Spec => []SocketsKept
<1>1. Init => OwnInv /\ Sockets
  BY InitOwnInv, InitSockets
<1>2. (OwnInv /\ Sockets) /\ [Next]_vars => (OwnInv /\ Sockets)'
  BY OwnStep, SocketStep
<1>3. ASSUME OwnInv, Sockets PROVE SocketsKept
  <2> SUFFICES ASSUME NEW c \in Conn, Served(c) PROVE Sock(c) = c
    BY DEF SocketsKept
  <2>1. {"play", "lost"} \in SUBSET Live
    BY DEF Live
  <2>2. Keeps(c)
    BY <1>3, <2>1, Identities DEF Keeps, Served
  <2> QED
    BY <1>3, <2>2, LobbyAssumption DEF Sockets, Sock
<1> QED
  BY <1>1, <1>2, <1>3, PTL DEF Spec

------------------------------------------------------------------------------
\* What made a waiter's poll return is still there when it looks again.
Heard == \A c \in Conn : waiting_player = c /\ hpc[c] = "ready" => Readable(c)

\* Reading from another's descriptor and closing it take nothing from c.
LEMMA UnreadKept ==
    ASSUME OwnInv, Sockets, NEW c \in Conn, Keeps(c), Readable(c),
           NEW p \in Conn \ {c}, Keeps(p), NEW F, F \subseteq {fd[p]},
           ReadAndClose(p, F) \/ Close(F)
    PROVE  Readable(c)'
<1>1. fd[p] \in Fd /\ fdt[fd[p]] = p
  BY DEF Sockets
<1>2. Sock(p) = p
  BY <1>1, LobbyAssumption DEF Sock
<1>3. \A f \in F : fdt[f] # c
  BY <1>1
<1>4. sent'[c] = sent[c] /\ gone'[c] = gone[c]
  BY <1>2, <1>3 DEF ReadAndClose, Close, OwnInv, TypeInv, TypeOK
<1> QED
  BY <1>4 DEF Readable

\* What no step reads or closes stays.
LEMMA SilentKept ==
    ASSUME NEW c, Readable(c), UNCHANGED <<sent, gone>>
    PROVE  Readable(c)'
  BY DEF Readable

\* So no step but its own takes it away.
LEMMA WaiterUnread ==
    ASSUME OwnInv, Sockets, [Next]_vars, "garbage" \notin Faults,
           NEW c \in Conn, waiting_player = c, hpc[c] = "ready", Readable(c)
    PROVE  waiting_player' # c \/ Readable(c)'
<1> USE SilentKept
<1>1. Keeps(c) /\ c # NULL
  BY LobbyAssumption DEF Keeps
<1>2. ASSUME NEW d \in Conn, Handler(d) \/ Accept(d) \/ AcceptAndDrop(d)
      PROVE  waiting_player' # c \/ Readable(c)'
  <2>1. CASE Hello(d) \/ AlreadyPlaying(d) \/ Bye(d)
    <3>1. d # c /\ Keeps(d)
      BY <2>1 DEF Hello, AlreadyPlaying, Bye, Keeps
    <3> QED
      BY <1>1, <2>1, <3>1, UnreadKept DEF Hello, AlreadyPlaying, Bye
  <2>2. CASE Match(d) \/ Leave(d)
    BY <1>1, <2>2 DEF Match, Leave
  <2>3. CASE \/ Accept(d) \/ AcceptAndDrop(d) \/ Register(d) \/ Wait(d) \/ PollReady(d)
             \/ PollTimeout(d) \/ Matched(d) \/ PollAgain(d)
    BY <2>3 DEF Accept, AcceptAndDrop, Register, Wait, PollReady, PollTimeout, Matched,
                PollAgain, net
  <2> QED
    BY <1>2, <2>1, <2>2, <2>3 DEF Handler
<1>3. ASSUME NEW g \in Conn, NEW p \in Conn, GameRead(g, p)
      PROVE  Readable(c)'
  <2>1. gpc[g] = "play" /\ p \in Players(g)
    BY <1>3 DEF GameRead
  <2>2. Has(g, p) /\ Keeps(p)
    BY <2>1, LivePlayers DEF Has, Keeps, Live
  <2>3. p # c
    BY <2>2 DEF OwnInv, Owned
  <2>4. \E F : F \subseteq {fd[p]} /\ ReadAndClose(p, F)
    BY <1>3 DEF GameRead
  <2> QED
    BY <1>1, <2>2, <2>3, <2>4, UnreadKept
<1>4. ASSUME NEW g \in Conn, GameClose(g)
      PROVE  Readable(c)'
  <2>1. gpc[g] = "end" /\ Close({fd[p] : p \in Players(g)})
    BY <1>4 DEF GameClose
  <2>2. \A p \in Players(g) : p \in Conn /\ Has(g, p) /\ Keeps(p)
    BY <2>1, LivePlayers DEF Has, Keeps, Live
  <2>3. \A p \in Players(g) : p # c /\ fdt[fd[p]] = p
    BY <2>2 DEF OwnInv, Owned, Sockets
  <2>4. sent'[c] = sent[c] /\ gone'[c] = gone[c]
    BY <2>1, <2>3 DEF Close, OwnInv, TypeInv, TypeOK
  <2> QED
    BY <2>4 DEF Readable
<1>5. ASSUME NEW g \in Conn, GameAbort(g) \/ GameUnreg(g)
      PROVE  Readable(c)'
  BY <1>5 DEF GameAbort, GameUnreg, net
<1>6. ASSUME NEW d \in Conn, (\E m \in Msg : Send(d, m)) \/ Hangup(d)
      PROVE  Readable(c)'
  BY <1>6 DEF Send, Hangup, Readable, OwnInv, TypeInv, TypeOK
<1>7. CASE UNCHANGED vars
  BY <1>7 DEF vars, net
<1>8. CASE AllServed
  BY <1>7, <1>8 DEF AllServed
<1> QED
  BY <1>2, <1>3, <1>4, <1>5, <1>6, <1>7, <1>8 DEF Next, GameEnds

\* What can happen to the slot and to a handler that has heard its client.
LEMMA SlotSteps ==
    ASSUME OwnInv, [Next]_vars
    PROVE  /\ \/ waiting_player' = waiting_player
              \/ waiting_player = NULL /\ \E d \in Conn : hpc'[d] = "poll" /\ waiting_player' = d
              \/ /\ waiting_player' = NULL
                 /\ \/ \E d \in Conn : gpc'[d] \in {"play", "lost"} /\ opp'[d] = waiting_player
                    \/ \E d \in Conn : hpc[d] = "ready" /\ waiting_player = d
           /\ \A d \in Conn : hpc'[d] = "ready" =>
                 \/ hpc[d] = "ready" \/ PollReady(d)
<1>1. ASSUME NEW c \in Conn, Wait(c) \/ Match(c) \/ Leave(c) PROVE
           /\ \/ waiting_player = NULL /\ hpc'[c] = "poll" /\ waiting_player' = c
              \/ /\ waiting_player' = NULL
                 /\ \/ gpc'[c] \in {"play", "lost"} /\ opp'[c] = waiting_player
                    \/ hpc[c] = "ready" /\ waiting_player = c
           /\ \A d \in Conn : hpc'[d] = "ready" => hpc[d] = "ready"
  BY <1>1 DEF Wait, Match, Leave, Goto, OwnInv, TypeInv, TypeOK, Places
<1>2. ASSUME NEW c \in Conn, PollReady(c)
      PROVE  waiting_player' = waiting_player /\ \A d \in Conn \ {c} : hpc'[d] = hpc[d]
  BY <1>2 DEF PollReady, Goto, shared, OwnInv, TypeInv, TypeOK
<1>3. ASSUME NEW c \in Conn,
             \/ Accept(c) \/ AcceptAndDrop(c) \/ Hello(c) \/ Register(c) \/ AlreadyPlaying(c)
             \/ PollTimeout(c) \/ Matched(c) \/ PollAgain(c) \/ Bye(c)
      PROVE  waiting_player' = waiting_player /\ \A d \in Conn : hpc'[d] = "ready" => hpc[d] = "ready"
  BY <1>3 DEF Accept, AcceptAndDrop, Hello, Register, AlreadyPlaying, PollTimeout, Matched,
              PollAgain, Bye, Goto, shared, OwnInv, TypeInv, TypeOK
<1>4. ASSUME NEW c \in Conn,
             \/ \E p \in Conn : GameRead(c, p)
             \/ GameAbort(c) \/ GameEnds(c)
             \/ \E m \in Msg : Send(c, m)
             \/ Hangup(c)
      PROVE  waiting_player' = waiting_player /\ hpc' = hpc
  BY <1>4 DEF GameRead, GameAbort, GameEnds, GameClose, GameUnreg, Send, Hangup, handler, shared
<1>5. CASE AllServed \/ UNCHANGED vars
  BY <1>5 DEF AllServed, vars, handler, shared
<1> QED
  BY <1>1, <1>2, <1>3, <1>4, <1>5 DEF Next, Handler

\* So what a waiter has heard is there when it looks again.
LEMMA HeardStep ==
    ASSUME OwnInv, Sockets, Heard, [Next]_vars, "garbage" \notin Faults
    PROVE  Heard'
<1> SUFFICES ASSUME NEW c \in Conn, waiting_player' = c, hpc'[c] = "ready"
             PROVE  Readable(c)'
  BY DEF Heard
<1>1. CASE waiting_player = c /\ hpc[c] = "ready"
  BY <1>1, WaiterUnread DEF Heard
<1>2. CASE waiting_player = c /\ hpc[c] # "ready"
  <2>1. PollReady(c)
    BY <1>2, SlotSteps
  <2>2. Sock(c) = c
    BY <1>2, LobbyAssumption DEF Sockets, Keeps, Sock
  <2>3. Readable(c) /\ UNCHANGED <<sent, gone>>
    BY <2>1, <2>2, LobbyAssumption DEF PollReady, CanRead, net
  <2> QED
    BY <2>3, SilentKept
<1>3. ~(waiting_player # c)
  <2> SUFFICES ASSUME waiting_player # c PROVE FALSE
    OBVIOUS
  <2>1. waiting_player = NULL /\ \E d \in Conn : hpc'[d] = "poll" /\ waiting_player' = d
    BY SlotSteps, LobbyAssumption
  <2> QED
    BY <2>1
<1> QED
  BY <1>1, <1>2, <1>3

\* A waiter that says nothing and stays waits until it is in a game (nimd.c
\* 325-336, 359-371), as long as malloc gives no address a second time.
THEOREM WaitersKept ==
    ASSUME "reuse" \notin Faults, "garbage" \notin Faults
    PROVE  Spec => WaiterKept
<1> DEFINE Ident == \A c \in Conn :
                      /\ Slot(c) <=> waiting_player = c
                      /\ InGame(c, {"play", "lost"})
                           <=> \E g \in Conn : gpc[g] \in {"play", "lost"} /\ c \in {opp[g], g}
           NetInv == OwnInv /\ Sockets /\ Heard
           Kept == \A c \in Conn : Slot(c) => \/ Readable(c) \/ Slot(c)'
                                               \/ InGame(c, {"play", "lost"})'
<1>0. OwnInv => Ident
  <2>1. {"play", "lost"} \in SUBSET Live
    BY DEF Live
  <2> QED
    BY <2>1, Identities
<1>1. Init => NetInv
  <2>1. Init => Heard
    BY DEF Init, Heard
  <2> QED
    BY <2>1, InitOwnInv, InitSockets
<1>2. NetInv /\ [Next]_vars => NetInv'
  BY OwnStep, SocketStep, HeardStep
<1>3. NetInv /\ Ident /\ Ident' /\ [Next]_vars => Kept
  <2> SUFFICES ASSUME NetInv, Ident, Ident', [Next]_vars, NEW c \in Conn, Slot(c)
               PROVE  Readable(c) \/ Slot(c)' \/ InGame(c, {"play", "lost"})'
    OBVIOUS
  <2>1. waiting_player = c /\ c # NULL
    BY LobbyAssumption
  <2>2. Slot(c)' <=> waiting_player' = c
    OBVIOUS
  <2>3. InGame(c, {"play", "lost"})'
          <=> \E g \in Conn : gpc'[g] \in {"play", "lost"} /\ c \in {opp'[g], g}
    OBVIOUS
  <2>4. hpc[c] = "ready" => Readable(c)
    BY <2>1 DEF Heard
  <2> HIDE DEF NetInv, Ident
  <2> QED
    BY <2>1, <2>2, <2>3, <2>4, SlotSteps DEF NetInv
<1>4. Kept <=> \A c \in Conn : Slot(c) => \/ Readable(c) \/ Slot(c)'
                                          \/ InGame(c, {"play", "lost"})'
  OBVIOUS
<1> HIDE DEF NetInv, Ident, Kept
<1> QED
  BY <1>0, <1>1, <1>2, <1>3, <1>4, PTL DEF Spec, WaiterKept, NetInv
=============================================================================
