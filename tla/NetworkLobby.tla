------------------------------ MODULE NetworkLobby ------------------------------
(***************************************************************************)
(* The lobbies and network games of src/http.rs: one registry behind a     *)
(* mutex, the HTTP requests that read it in one critical section and act   *)
(* in another, the thread that launches the game of a full lobby, and the  *)
(* sweeper that closes lobbies whose players have gone.                    *)
(*                                                                         *)
(* Only the seats of humans are modelled; usernames, rules and card        *)
(* catalogs are left out, a deck is chosen or still "random", a seat token *)
(* is the number of times its seat was given up, and the 45 seconds a      *)
(* player may be silent are the set of players seen recently.              *)
(***************************************************************************)
EXTENDS Naturals, FiniteSets, FiniteSetsExt

CONSTANTS
  Codes,              \* invite codes
  NSeats,             \* human seats of a lobby
  Workers,            \* HTTP requests under way
  MaxLaunches,        \* bound: sessions created
  MaxToken,           \* bound: times a seat is given up
  NoLobby, NoGame, NoRequest

ASSUME LobbyAssumption ==
  /\ NSeats \in 2..4
  /\ MaxLaunches \in Nat
  /\ MaxToken \in Nat

Seats == 1..NSeats
Launches == 1..MaxLaunches
NoLaunch == 0

VARIABLES
  issued,             \* registry.issued_invite_codes
  lobbies,            \* registry.lobbies: code -> lobby
  inviteTo,           \* registry.invite_to_session: code -> session
  games,              \* registry.sessions: session -> network game
  running,            \* the sessions of the session manager
  launch,             \* session -> the thread that creates and registers it
  requests,           \* worker -> the request it has authenticated
  granted             \* history: the seats and tokens given to players

registryVars == <<issued, lobbies, inviteTo, games>>
vars == <<registryVars, running, launch, requests, granted>>

Access == [code : Codes, seat : Seats, token : 0..MaxToken]

Lobby == [claimed : (SUBSET Seats) \ {{}}, host : Seats, ready : SUBSET Seats,
          chosen : SUBSET Seats,        \* the seats whose deck is not "random"
          tokens : [Seats -> 0..MaxToken],
          fresh : SUBSET Seats,         \* last_seen_by_player_id, 45 s
          status : {"waiting", "starting", "failed"}]

Game == [code : Codes, claimed : SUBSET Seats, host : Seats,
         tokens : [Seats -> 0..MaxToken]]

\* A thread clones the lobby, creates the session and registers the game;
\* "host" registers a game that was created without a lobby, and an "abandoned"
\* session is one whose id create did not return
Launch ==
  [pc : {"none", "host", "done", "abandoned"}, game : {NoGame}, code : {NoLobby}]
    \cup [pc : {"clone"}, game : {NoGame}, code : Codes]
    \cup [pc : {"create", "register"}, game : Game, code : Codes]

LobbyRequests == [op : {"leave", "update"}, code : Codes, seat : Seats]
GameRequests == [op : {"joined", "leaveGame", "close", "closed"}, session : Launches, seat : Seats]

\* The special values are none of the values they stand beside
ASSUME SpecialAssumption ==
  /\ NoLobby \notin Lobby \cup Codes
  /\ NoGame \notin Game
  /\ NoRequest \notin LobbyRequests \cup GameRequests

IdleLaunch == [pc |-> "none", game |-> NoGame, code |-> NoLobby]

Init ==
  /\ issued = {}
  /\ lobbies = [k \in Codes |-> NoLobby]
  /\ inviteTo = [k \in Codes |-> NoLaunch]
  /\ games = [n \in Launches |-> NoGame]
  /\ running = {}
  /\ launch = [n \in Launches |-> IdleLaunch]
  /\ requests = [w \in Workers |-> NoRequest]
  /\ granted = {}

-----------------------------------------------------------------------------
(* Lobbies.                                                                 *)

\* A code that names nothing now
UnusedCode(k) == lobbies[k] = NoLobby /\ inviteTo[k] = NoLaunch

\* A code that was never given out
FreeCode(k) == k \notin issued /\ UnusedCode(k)

\* The request may bring the decks of any seats
CreateLobby(k, host) ==
  /\ FreeCode(k)
  /\ issued' = issued \cup {k}
  /\ \E decks \in SUBSET Seats :
       lobbies' = [lobbies EXCEPT ![k] =
         [claimed |-> {host}, host |-> host, ready |-> {}, chosen |-> decks,
          tokens |-> [s \in Seats |-> 0], fresh |-> {host}, status |-> "waiting"]]
  /\ granted' = granted \cup {[code |-> k, seat |-> host, token |-> 0]}
  /\ UNCHANGED <<inviteTo, games, running, launch, requests>>

\* The seat's player is one of the lobby, and not ready yet
Seated(k, s) ==
  /\ lobbies' = [lobbies EXCEPT ![k].claimed = @ \cup {s}, ![k].fresh = @ \cup {s},
                                ![k].ready = @ \ {s}]
  /\ granted' = granted \cup {[code |-> k, seat |-> s, token |-> lobbies[k].tokens[s]]}
  /\ UNCHANGED <<issued, inviteTo, games, running, launch, requests>>

\* The first free seat, whatever the status of the lobby
JoinLobby(k) ==
  /\ lobbies[k] # NoLobby
  /\ lobbies[k].claimed # Seats
  /\ Seated(k, Min(Seats \ lobbies[k].claimed))

\* The player of a seat presents its token
Authentic(a) ==
  /\ lobbies[a.code] # NoLobby
  /\ a.seat \in lobbies[a.code].claimed
  /\ a.token = lobbies[a.code].tokens[a.seat]

ResumeLobby(a) == Authentic(a) /\ Seated(a.code, a.seat)

\* authenticated_lobby_player: the lock is released before the request acts
Authenticate(w, a, op) ==
  /\ requests[w] = NoRequest
  /\ Authentic(a)
  /\ lobbies' = [lobbies EXCEPT ![a.code].fresh = @ \cup {a.seat}]
  /\ requests' = [requests EXCEPT ![w] = [op |-> op, code |-> a.code, seat |-> a.seat]]
  /\ UNCHANGED <<issued, inviteTo, games, running, launch, granted>>

PollLobby(a) ==
  /\ Authentic(a)
  /\ lobbies' = [lobbies EXCEPT ![a.code].fresh = @ \cup {a.seat}]
  /\ UNCHANGED <<issued, inviteTo, games, running, launch, requests, granted>>

Answered(w) == requests' = [requests EXCEPT ![w] = NoRequest]

\* A seat is given up: its token changes and its deck is random again
Vacated(lobby, s) ==
  [lobby EXCEPT !.claimed = @ \ {s}, !.fresh = @ \ {s}, !.ready = @ \ {s},
                !.chosen = @ \ {s}, !.tokens[s] = @ + 1]

\* A host who leaves stays the host
HostedForEver(lobby, s) == lobby

\* The host is the first player left, if the host has gone
Hosted(lobby, s) ==
  IF lobby.host = s THEN [lobby EXCEPT !.host = Min(lobby.claimed)] ELSE lobby

LeaveLobby(w) ==
  LET k == requests[w].code
      s == requests[w].seat
      left == Vacated(lobbies[k], s)
  IN /\ requests[w] \in LobbyRequests
     /\ requests[w].op = "leave"
     /\ lobbies[k] # NoLobby
     /\ lobbies[k].tokens[s] < MaxToken
     /\ lobbies' = [lobbies EXCEPT ![k] = IF left.claimed = {} THEN NoLobby ELSE Hosted(left, s)]
     /\ Answered(w)
     /\ UNCHANGED <<issued, inviteTo, games, running, launch, granted>>

\* network_lobby_can_start; a chosen deck is taken to stay on the disk
CanStart(lobby) ==
  /\ lobby.claimed = Seats
  /\ lobby.claimed \subseteq lobby.ready
  /\ lobby.chosen = Seats

\* A lobby that has nothing against an update, starting or not
OpenWhileStarting(lobby) == TRUE

\* A lobby that has nothing against an update
Open(lobby) == lobby.status # "starting"

\* The seat's deck, and the readiness it takes away
DeckSet(lobby, s, deck) ==
  CASE deck = "same" -> lobby
    [] deck = "chosen" -> [lobby EXCEPT !.chosen = @ \cup {s}, !.ready = @ \ {s}]
    [] deck = "random" -> [lobby EXCEPT !.chosen = @ \ {s}, !.ready = @ \ {s}]

ReadySet(lobby, s, ready) ==
  CASE ready = "same" -> lobby
    [] ready = "yes" -> [lobby EXCEPT !.ready = @ \cup {s}]
    [] ready = "no" -> [lobby EXCEPT !.ready = @ \ {s}]

\* The first thread that has not been used
NextLaunch(n) == launch[n].pc = "none" /\ \A m \in Launches : m < n => launch[m].pc # "none"

\* An update that goes through: the lobby waits again or, when it can, starts
Updated(k, lobby) ==
  \/ /\ ~CanStart(lobby)
     /\ lobbies' = [lobbies EXCEPT ![k] = [lobby EXCEPT !.status = "waiting"]]
     /\ UNCHANGED launch
  \/ /\ CanStart(lobby)
     /\ lobbies' = [lobbies EXCEPT ![k] = [lobby EXCEPT !.status = "starting"]]
     /\ \E n \in Launches :
          /\ NextLaunch(n)
          /\ launch' = [launch EXCEPT ![n].pc = "clone", ![n].code = k]

\* A player edits the own seat: deck, name and readiness.  A refused readiness
\* leaves the deck and the name changed.
UpdateOwnSeat(w) ==
  LET k == requests[w].code
      s == requests[w].seat
  IN /\ requests[w] \in LobbyRequests
     /\ requests[w].op = "update"
     /\ lobbies[k] # NoLobby
     /\ Open(lobbies[k])
     /\ \E deck \in {"same", "chosen", "random"}, ready \in {"same", "yes", "no"}, renamed \in BOOLEAN :
          LET edited == ReadySet(DeckSet(lobbies[k], s, deck), s, IF renamed THEN "no" ELSE "same")
          IN IF ready = "yes" /\ s \notin edited.chosen
             THEN lobbies' = [lobbies EXCEPT ![k] = edited] /\ UNCHANGED launch
             ELSE Updated(k, ReadySet(edited, s, ready))
     /\ Answered(w)
     /\ UNCHANGED <<issued, inviteTo, games, running, granted>>

\* The host chooses the deck of a seat nobody has taken, or of an AI
UpdateFreeSeat(w) ==
  LET k == requests[w].code
  IN /\ requests[w] \in LobbyRequests
     /\ requests[w].op = "update"
     /\ lobbies[k] # NoLobby
     /\ Open(lobbies[k])
     /\ lobbies[k].host = requests[w].seat
     /\ \/ Updated(k, lobbies[k])
        \/ \E s \in Seats \ (lobbies[k].claimed \cup {requests[w].seat}), deck \in {"chosen", "random"} :
             Updated(k, DeckSet(lobbies[k], s, deck))
     /\ Answered(w)
     /\ UNCHANGED <<issued, inviteTo, games, running, granted>>

\* The lobby has been closed, or the update is refused: the game is already
\* starting, the deck or the name is no good, the seat is another player's
LobbyRefuses(w) ==
  /\ requests[w] \in LobbyRequests
  /\ requests[w].op = "update" \/ lobbies[requests[w].code] = NoLobby
  /\ Answered(w)
  /\ UNCHANGED <<registryVars, running, launch, granted>>

\* A player has not been heard of for 45 seconds
Silent(k, s) ==
  /\ lobbies[k] # NoLobby
  /\ s \in lobbies[k].fresh
  /\ lobbies' = [lobbies EXCEPT ![k].fresh = @ \ {s}]
  /\ UNCHANGED <<issued, inviteTo, games, running, launch, requests, granted>>

\* ensure_network_lobby_cleanup: every lobby without a recent player closes
Sweep ==
  LET stale == {k \in Codes : lobbies[k] # NoLobby /\ lobbies[k].fresh \cap lobbies[k].claimed = {}}
  IN /\ stale # {}
     /\ lobbies' = [k \in Codes |-> IF k \in stale THEN NoLobby ELSE lobbies[k]]
     /\ UNCHANGED <<issued, inviteTo, games, running, launch, requests, granted>>

-----------------------------------------------------------------------------
(* The launch of a lobby's game.                                            *)

LaunchEnds(n) == launch' = [launch EXCEPT ![n] = [IdleLaunch EXCEPT !.pc = "done"]]

\* create reports the error of its first view and leaves the session running
SessionAbandoned(n) ==
  /\ running' = running \cup {n}
  /\ launch' = [launch EXCEPT ![n] = [IdleLaunch EXCEPT !.pc = "abandoned"]]

\* CloneLobby that goes on without a lobby
CloneNothing(n) ==
  LET k == launch[n].code
      lobby == lobbies[k]
  IN /\ launch[n].pc = "clone"
     /\ launch' = [launch EXCEPT ![n].pc = "create", ![n].game =
          IF lobby = NoLobby THEN NoGame
          ELSE [code |-> k, claimed |-> lobby.claimed, host |-> lobby.host,
                tokens |-> lobby.tokens]]
     /\ UNCHANGED <<registryVars, running, requests, granted>>

\* The thread works on a clone of the lobby from here on
CloneLobby(n) ==
  LET k == launch[n].code
      lobby == lobbies[k]
  IN /\ launch[n].pc = "clone"
     /\ IF lobby = NoLobby
        THEN LaunchEnds(n)
        ELSE launch' = [launch EXCEPT ![n].pc = "create", ![n].game =
               [code |-> k, claimed |-> lobby.claimed, host |-> lobby.host,
                tokens |-> lobby.tokens]]
     /\ UNCHANGED <<registryVars, running, requests, granted>>

\* The launch fails and the lobby does not hear of it
FailUnnoticed(k) == UNCHANGED lobbies

\* fail_network_lobby
FailLobby(k) ==
  lobbies' = [lobbies EXCEPT ![k] =
    IF @ = NoLobby THEN @ ELSE [@ EXCEPT !.status = "failed", !.ready = {}]]

\* A deck that does not compile, or a session that is refused or abandoned
LaunchFails(n) ==
  /\ launch[n].pc = "create"
  /\ FailLobby(launch[n].code)
  /\ \/ LaunchEnds(n) /\ UNCHANGED running
     \/ SessionAbandoned(n)
  /\ UNCHANGED <<issued, inviteTo, games, requests, granted>>

\* create_local_deck_game creates the session
CreateSession(n) ==
  /\ launch[n].pc = "create"
  /\ running' = running \cup {n}
  /\ launch' = [launch EXCEPT ![n].pc = "register"]
  /\ UNCHANGED <<registryVars, requests, granted>>

Registered(n, game) ==
  /\ inviteTo' = [inviteTo EXCEPT ![game.code] = n]
  /\ games' = [games EXCEPT ![n] = game]

\* RegisterGame that leaves the session of a closed lobby to itself
RegisterGameOrNothing(n) ==
  LET k == launch[n].code
  IN /\ launch[n].pc = "register"
     /\ IF lobbies[k] = NoLobby
        THEN UNCHANGED <<registryVars, running>>
        ELSE /\ lobbies' = [lobbies EXCEPT ![k] = NoLobby]
             /\ Registered(n, launch[n].game)
             /\ UNCHANGED <<issued, running>>
     /\ LaunchEnds(n)
     /\ UNCHANGED <<requests, granted>>

\* RegisterGame that refreshes the tokens of the clone and not its players
RegisterGameWithNewTokens(n) ==
  LET k == launch[n].code
  IN /\ launch[n].pc = "register"
     /\ IF lobbies[k] = NoLobby
        THEN running' = running \ {n} /\ UNCHANGED registryVars
        ELSE /\ lobbies' = [lobbies EXCEPT ![k] = NoLobby]
             /\ Registered(n, [launch[n].game EXCEPT !.tokens = lobbies[k].tokens])
             /\ UNCHANGED <<issued, running>>
     /\ LaunchEnds(n)
     /\ UNCHANGED <<requests, granted>>

\* The lobby becomes a network game, or it has been closed and the session goes
RegisterGame(n) ==
  LET k == launch[n].code
  IN /\ launch[n].pc = "register"
     /\ IF lobbies[k] = NoLobby
        THEN running' = running \ {n} /\ UNCHANGED registryVars
        ELSE /\ lobbies' = [lobbies EXCEPT ![k] = NoLobby]
             /\ Registered(n, launch[n].game)
             /\ UNCHANGED <<issued, running>>
     /\ LaunchEnds(n)
     /\ UNCHANGED <<requests, granted>>

\* A network game without a lobby: its session is created first, or abandoned
HostGame(n) ==
  /\ NextLaunch(n)
  /\ \/ running' = running \cup {n} /\ launch' = [launch EXCEPT ![n].pc = "host"]
     \/ SessionAbandoned(n)
  /\ UNCHANGED <<registryVars, requests, granted>>

\* register_network_game; a bad name is noticed after the code is issued
RegisterHosted(n, k, host) ==
  /\ launch[n].pc = "host"
  /\ k \notin issued /\ inviteTo[k] = NoLaunch
  /\ issued' = issued \cup {k}
  /\ \/ /\ Registered(n, [code |-> k, claimed |-> {host}, host |-> host,
                           tokens |-> [s \in Seats |-> 0]])
        /\ granted' = granted \cup {[code |-> k, seat |-> host, token |-> 0]}
        /\ UNCHANGED running
     \/ running' = running \ {n} /\ UNCHANGED <<inviteTo, games, granted>>
  /\ LaunchEnds(n)
  /\ UNCHANGED <<lobbies, requests>>

\* register_network_game finds no human host
HostRefused(n) ==
  /\ launch[n].pc = "host"
  /\ running' = running \ {n}
  /\ LaunchEnds(n)
  /\ UNCHANGED <<registryVars, requests, granted>>

-----------------------------------------------------------------------------
(* Network games.                                                           *)

AuthenticIn(n, a) ==
  /\ games[n] # NoGame
  /\ a.code = games[n].code
  /\ a.seat \in games[n].claimed
  /\ a.token = games[n].tokens[a.seat]

GameRequest(w, op, n, s) ==
  requests' = [requests EXCEPT ![w] = [op |-> op, session |-> n, seat |-> s]]

\* A free seat, the first or the one asked for, or one's own; the session is
\* looked up after the registry is unlocked
JoinGame(w, k, s) ==
  LET n == inviteTo[k]
  IN /\ requests[w] = NoRequest
     /\ n # NoLaunch
     /\ games[n] # NoGame
     /\ s \in games[n].claimed => [code |-> k, seat |-> s, token |-> games[n].tokens[s]] \in granted
     /\ games' = [games EXCEPT ![n].claimed = @ \cup {s}]
     /\ granted' = granted \cup {[code |-> k, seat |-> s, token |-> games[n].tokens[s]]}
     /\ GameRequest(w, "joined", n, s)
     /\ UNCHANGED <<issued, lobbies, inviteTo, running, launch>>

\* Unregister that forgets the game and keeps its code
UnregisterKeepingCode(n) ==
  IF games[n] = NoGame THEN UNCHANGED <<games, inviteTo>>
  ELSE games' = [games EXCEPT ![n] = NoGame] /\ UNCHANGED inviteTo

\* unregister_network_game
Unregister(n) ==
  IF games[n] = NoGame THEN UNCHANGED <<games, inviteTo>>
  ELSE /\ games' = [games EXCEPT ![n] = NoGame]
       /\ inviteTo' = [inviteTo EXCEPT ![games[n].code] = NoLaunch]

\* A game without a session is found out by the next player who joins it
JoinedAnswered(w) ==
  LET n == requests[w].session
  IN /\ requests[w] \in GameRequests
     /\ requests[w].op = "joined"
     /\ IF n \in running THEN UNCHANGED <<games, inviteTo>> ELSE Unregister(n)
     /\ Answered(w)
     /\ UNCHANGED <<issued, lobbies, running, launch, granted>>

\* authenticated_network_access; only the host may close the game
RequestLeave(w, n, a) ==
  /\ requests[w] = NoRequest
  /\ AuthenticIn(n, a)
  /\ GameRequest(w, "leaveGame", n, a.seat)
  /\ UNCHANGED <<registryVars, running, launch, granted>>

RequestClose(w, n, a) ==
  /\ requests[w] = NoRequest
  /\ AuthenticIn(n, a)
  /\ a.seat = games[n].host
  /\ GameRequest(w, "close", n, a.seat)
  /\ UNCHANGED <<registryVars, running, launch, granted>>

\* The host must close the game instead
MayLeave(game, s) == game.host # s

LeaveGame(w) ==
  LET n == requests[w].session
      s == requests[w].seat
  IN /\ requests[w] \in GameRequests
     /\ requests[w].op = "leaveGame"
     /\ IF games[n] # NoGame /\ MayLeave(games[n], s)
        THEN games' = [games EXCEPT ![n].claimed = @ \ {s}]
        ELSE UNCHANGED games
     /\ Answered(w)
     /\ UNCHANGED <<issued, lobbies, inviteTo, running, launch, granted>>

\* The session is removed first; one that is gone already is an error
CloseSession(w) ==
  LET n == requests[w].session
  IN /\ requests[w] \in GameRequests
     /\ requests[w].op = "close"
     /\ IF n \in running
        THEN running' = running \ {n} /\ GameRequest(w, "closed", n, requests[w].seat)
        ELSE UNCHANGED running /\ Answered(w)
     /\ UNCHANGED <<registryVars, launch, granted>>

CloseGame(w) ==
  /\ requests[w] \in GameRequests
  /\ requests[w].op = "closed"
  /\ Unregister(requests[w].session)
  /\ Answered(w)
  /\ UNCHANGED <<issued, lobbies, running, launch, granted>>

\* A submission whose wait times out removes the session, see GameSession
SessionTimesOut(n) ==
  /\ games[n] # NoGame
  /\ n \in running
  /\ running' = running \ {n}
  /\ UNCHANGED <<registryVars, launch, requests, granted>>

-----------------------------------------------------------------------------
LobbyRequest ==
  \/ \E k \in Codes : JoinLobby(k) \/ \E s \in Seats : CreateLobby(k, s)
  \/ \E a \in granted :
       \/ ResumeLobby(a)
       \/ PollLobby(a)
       \/ \E w \in Workers, op \in {"leave", "update"} : Authenticate(w, a, op)
  \/ \E w \in Workers :
       LeaveLobby(w) \/ UpdateOwnSeat(w) \/ UpdateFreeSeat(w) \/ LobbyRefuses(w)

Cleanup == Sweep \/ \E k \in Codes, s \in Seats : Silent(k, s)

LaunchThread(n) == CloneLobby(n) \/ LaunchFails(n) \/ CreateSession(n) \/ RegisterGame(n)

HostedGame ==
  \E n \in Launches :
    HostGame(n) \/ HostRefused(n) \/ \E k \in Codes, s \in Seats : RegisterHosted(n, k, s)

NetworkGame ==
  \E w \in Workers :
    \/ \E k \in Codes, s \in Seats : JoinGame(w, k, s)
    \/ \E n \in Launches, a \in granted : RequestLeave(w, n, a) \/ RequestClose(w, n, a)
    \/ JoinedAnswered(w) \/ LeaveGame(w) \/ CloseSession(w) \/ CloseGame(w)

Next ==
  \/ LobbyRequest
  \/ Cleanup
  \/ \E n \in Launches : LaunchThread(n) \/ SessionTimesOut(n)
  \/ HostedGame
  \/ NetworkGame

Spec == Init /\ [][Next]_vars

\* The launch threads run to their end; no request has to be made or answered.
FairSpec == Spec /\ \A n \in Launches : WF_vars(LaunchThread(n))

-----------------------------------------------------------------------------
(* Properties.                                                              *)

\* Type correctness.
TypeOK ==
  /\ issued \in SUBSET Codes
  /\ lobbies \in [Codes -> Lobby \cup {NoLobby}]
  /\ inviteTo \in [Codes -> Launches \cup {NoLaunch}]
  /\ games \in [Launches -> Game \cup {NoGame}]
  /\ running \in SUBSET Launches
  /\ launch \in [Launches -> Launch]
  /\ requests \in [Workers -> LobbyRequests \cup GameRequests \cup {NoRequest}]
  /\ granted \in SUBSET Access

\* A code names a lobby or a game and never both, and the two maps of the
\* registry agree: a player who joins by code and one who acts by session find
\* the same game, although closing, joining and launching run side by side.
CodesAreUnique ==
  /\ \A k \in Codes : inviteTo[k] # NoLaunch =>
       /\ lobbies[k] = NoLobby
       /\ games[inviteTo[k]] # NoGame
       /\ games[inviteTo[k]].code = k
  /\ \A n \in Launches : games[n] # NoGame => inviteTo[games[n].code] = n

\* A lobby is starting exactly while one thread launches it, whatever players
\* leave, join or edit meanwhile, and no thread launches a lobby that took the
\* code of a closed one.
Launching(k) == {n \in Launches : launch[n].code = k}

StartingIsLaunching ==
  \A k \in Codes : lobbies[k] # NoLobby =>
    Cardinality(Launching(k)) = IF lobbies[k].status = "starting" THEN 1 ELSE 0

\* What a code names, as the players see it.
LobbyTable(lobby) ==
  [life |-> IF lobby.status = "starting" THEN "starting" ELSE "open",
   players |-> lobby.claimed, host |-> lobby.host, session |-> NoLaunch]

GameTable(n) ==
  [life |-> "game", players |-> games[n].claimed, host |-> games[n].host, session |-> n]

NoTable(k) ==
  [life |-> IF k \in issued THEN "closed" ELSE "unissued", players |-> {},
   host |-> NoLaunch, session |-> NoLaunch]

Table(k) ==
  IF lobbies[k] # NoLobby THEN LobbyTable(lobbies[k])
  ELSE IF inviteTo[k] # NoLaunch THEN GameTable(inviteTo[k])
  ELSE NoTable(k)

Tables == [k \in Codes |-> Table(k)]

Used == {n \in Launches : launch[n].pc \in {"done", "abandoned"}}

Invitation ==
  INSTANCE Invitations WITH Sessions <- Launches, None <- NoLaunch, tables <- Tables, used <- Used

\* The registry does what Invitations promises: a code has one life, from lobby
\* to game to nothing, in which only a launch of that very lobby makes the game,
\* in a session no other game has had, and its host is one of the players, whoever
\* leaves, joins, edits or is swept while the launch works on its clone.
ImplementsInvitations == Invitation!Spec

\* A session that runs is registered, or its launch is still under way, or create
\* kept its id to itself (it returns the error of the first view and leaves the
\* session); a lobby that closes during its launch leaves none behind.
NoSessionIsLost ==
  \A n \in running : games[n] # NoGame \/ launch[n].pc \in {"register", "host", "abandoned"}

GivenOut(k, s, token) == [code |-> k, seat |-> s, token |-> token] \in granted

\* The token a lobby accepts for a seat was given to somebody exactly when the
\* seat is taken, so no player who left can return to it or act for the next
\* one; and every seat a game counts as taken has a player who can act for it,
\* although the game is made from a clone of a lobby that players have left and
\* joined meanwhile.  It does not say that the two agree: a game accepts the
\* tokens of the clone, those of players who left during the launch included.
TakenSeatsHaveHolders ==
  /\ \A k \in Codes, s \in Seats : lobbies[k] # NoLobby =>
       (s \in lobbies[k].claimed <=> GivenOut(k, s, lobbies[k].tokens[s]))
  /\ \A n \in Launches : games[n] # NoGame =>
       \A s \in games[n].claimed : GivenOut(games[n].code, s, games[n].tokens[s])

\* Every launch ends: the lobby becomes a game, fails or is closed.
StartingEnds ==
  \A k \in Codes :
    lobbies[k] # NoLobby /\ lobbies[k].status = "starting" ~>
      lobbies[k] = NoLobby \/ lobbies[k].status # "starting"

-----------------------------------------------------------------------------
(* What the repository says and the code does not do.                       *)

\* "Only a seated player may change their username or ready state".
ReadySeatsAreSeated ==
  \A k \in Codes : lobbies[k] # NoLobby => lobbies[k].ready \subseteq lobbies[k].claimed
=============================================================================
