-------------------------- MODULE NetworkLobbyProofs --------------------------
(***************************************************************************)
(* Proofs about NetworkLobby for every set of codes and requests and every *)
(* number of launches and token renewals: types, that codes, hosts,        *)
(* sessions, launches and seat tokens stay consistent while requests act   *)
(* in critical sections apart from the ones they were authenticated in,    *)
(* and that the registry implements Invitations.                           *)
(***************************************************************************)
EXTENDS NetworkLobby, FiniteSetTheorems, TLAPS

-----------------------------------------------------------------------------
(* The inductive invariant.                                                 *)

\* What bears a code was issued it.
CodesAreIssued ==
  /\ \A k \in Codes : lobbies[k] # NoLobby => k \in issued
  /\ \A n \in Launches : launch[n].code \in Codes => launch[n].code \in issued
  /\ \A n \in Launches : games[n] # NoGame => games[n].code \in issued
  /\ \A a \in granted : a.code \in issued

\* A launch works on the game of its own code, whose host has a seat; a game is
\* registered by a launch that is done.
LaunchInv ==
  \A n \in Launches :
    /\ launch[n].pc \in {"create", "register"} =>
         /\ launch[n].game.code = launch[n].code
         /\ launch[n].game.host \in launch[n].game.claimed
    /\ games[n] # NoGame => launch[n].pc = "done"

\* A request about a session comes after its launch; one that closes it has
\* removed the session already.
RequestInv ==
  \A w \in Workers : requests[w] \in GameRequests =>
    /\ launch[requests[w].session].pc = "done"
    /\ requests[w].op = "closed" => requests[w].session \notin running

\* No token was given out ahead of its seat, nor the one a free seat is waiting
\* to give.
GrantInv ==
  \A a \in granted : lobbies[a.code] # NoLobby =>
    /\ a.token <= lobbies[a.code].tokens[a.seat]
    /\ a.seat \notin lobbies[a.code].claimed => a.token < lobbies[a.code].tokens[a.seat]

\* Every player of a lobby or of a game was given the token of the seat, also of
\* the game that a launch is about to register.
Holding(k, g, given) ==
  \A s \in g.claimed : [code |-> k, seat |-> s, token |-> g.tokens[s]] \in given

HolderInv ==
  /\ \A k \in Codes : lobbies[k] # NoLobby => Holding(k, lobbies[k], granted)
  /\ \A n \in Launches : launch[n].pc \in {"create", "register"} =>
       Holding(launch[n].game.code, launch[n].game, granted)
  /\ \A n \in Launches : games[n] # NoGame => Holding(games[n].code, games[n], granted)

\* The host of a lobby or of a game has a seat in it, also when the host leaves
\* while others leave or the game is launched from an older clone.
HostIsSeated ==
  /\ \A k \in Codes : lobbies[k] # NoLobby => lobbies[k].host \in lobbies[k].claimed
  /\ \A n \in Launches : games[n] # NoGame => games[n].host \in games[n].claimed

\* StartingIsLaunching without its cardinality.
StartingInv ==
  \A k \in Codes : lobbies[k] # NoLobby =>
    IF lobbies[k].status = "starting"
    THEN \E n \in Launches : Launching(k) = {n}
    ELSE Launching(k) = {}

IInv ==
  /\ TypeOK
  /\ CodesAreIssued
  /\ LaunchInv
  /\ RequestInv
  /\ GrantInv
  /\ HolderInv
  /\ StartingInv
  /\ CodesAreUnique
  /\ HostIsSeated
  /\ NoSessionIsLost

-----------------------------------------------------------------------------
(* The first of some seats.                                                 *)

\* The seat that joining or a leaving host picks is one of those it picks from.
LEMMA FirstSeat ==
  ASSUME NEW S \in SUBSET Seats, S # {}
  PROVE  Min(S) \in S
<1>1. \A i \in S : i \in {1, 2, 3, 4}
  BY LobbyAssumption DEF Seats
<1>2. \E i \in S : \A j \in S : i <= j
  <2>1. CASE 1 \in S
    BY <1>1, <2>1
  <2>2. CASE 1 \notin S /\ 2 \in S
    BY <1>1, <2>2
  <2>3. CASE 1 \notin S /\ 2 \notin S /\ 3 \in S
    BY <1>1, <2>3
  <2>4. CASE 1 \notin S /\ 2 \notin S /\ 3 \notin S
    BY <1>1, <2>4
  <2> QED
    BY <2>1, <2>2, <2>3, <2>4
<1> QED
  BY <1>2 DEF Min

\* Initially nothing exists.
LEMMA InitIInv == Init => IInv
<1> SUFFICES ASSUME Init PROVE IInv
  OBVIOUS
<1>1. TypeOK
  <2>1. launch \in [Launches -> Launch]
    BY DEF Init, Launch, IdleLaunch
  <2> QED
    BY <2>1 DEF Init, TypeOK
<1>2. CodesAreIssued
  BY SpecialAssumption DEF Init, CodesAreIssued, IdleLaunch
<1>3. LaunchInv /\ GrantInv /\ HolderInv /\ NoSessionIsLost
  BY DEF Init, LaunchInv, GrantInv, HolderInv, NoSessionIsLost, IdleLaunch
<1>4. RequestInv
  BY SpecialAssumption DEF Init, RequestInv
<1>5. StartingInv /\ HostIsSeated
  BY DEF Init, StartingInv, HostIsSeated
<1>6. CodesAreUnique
  BY DEF Init, CodesAreUnique
<1> QED
  BY <1>1, <1>2, <1>3, <1>4, <1>5, <1>6 DEF IInv

-----------------------------------------------------------------------------
(* What requests do to a lobby.                                             *)

\* Players hold their tokens while what counts them stays, goes or counts players
\* who do.
LEMMA HoldersStay ==
  ASSUME IInv, granted \subseteq granted',
         \A k \in Codes : lobbies'[k] \in {lobbies[k], NoLobby} \/ Holding(k, lobbies'[k], granted'),
         \A n \in Launches : launch'[n].pc \in {"create", "register"} =>
           \/ launch[n].pc \in {"create", "register"} /\ launch'[n].game = launch[n].game
           \/ Holding(launch'[n].game.code, launch'[n].game, granted'),
         \A n \in Launches : games'[n] \in {games[n], NoGame} \/ Holding(games'[n].code, games'[n], granted')
  PROVE  HolderInv'
<1>1. \A k, g : Holding(k, g, granted) => Holding(k, g, granted')
  BY DEF Holding
<1>2. \A k \in Codes : lobbies'[k] # NoLobby => Holding(k, lobbies'[k], granted')
  BY <1>1 DEF IInv, HolderInv
<1>3. \A n \in Launches : launch'[n].pc \in {"create", "register"} =>
        Holding(launch'[n].game.code, launch'[n].game, granted')
  BY <1>1 DEF IInv, HolderInv
<1>4. \A n \in Launches : games'[n] # NoGame => Holding(games'[n].code, games'[n], granted')
  BY <1>1 DEF IInv, HolderInv
<1> QED
  BY <1>2, <1>3, <1>4 DEF HolderInv

Requests == LobbyRequests \cup GameRequests \cup {NoRequest}

\* Requests come, about lobbies, and go.
RequestsAside ==
  /\ requests' \in [Workers -> Requests]
  /\ \A w \in Workers :
       requests'[w] = requests[w] \/ requests'[w] \in LobbyRequests \cup {NoRequest}

LEMMA AsideRequests ==
  ASSUME IInv, RequestsAside, running' \subseteq running, UNCHANGED launch
  PROVE  RequestInv'
<1>1. \A w \in Workers : requests'[w] \in GameRequests => requests'[w] = requests[w]
  BY SpecialAssumption DEF RequestsAside, LobbyRequests, GameRequests
<1> QED
  BY <1>1 DEF IInv, RequestInv

\* A lobby may be edited: its host has a seat, it is no more and no less starting,
\* a token never goes back and one of a seat given up goes on; the tokens given
\* out are those of its players.
Edits(old, new) ==
  /\ new \in Lobby
  /\ new.host \in new.claimed
  /\ new.status = "starting" <=> old.status = "starting"
  /\ \A s \in Seats :
       /\ old.tokens[s] <= new.tokens[s]
       /\ s \in old.claimed \ new.claimed => old.tokens[s] < new.tokens[s]

Grants(k, new) ==
  /\ granted' \subseteq granted \cup {[code |-> k, seat |-> s, token |-> new.tokens[s]] : s \in new.claimed}
  /\ granted \subseteq granted'
  /\ Holding(k, new, granted')

LEMMA EditLobby ==
  ASSUME IInv, NEW k \in Codes, NEW new, lobbies[k] # NoLobby,
         Edits(lobbies[k], new), lobbies' = [lobbies EXCEPT ![k] = new],
         Grants(k, new), RequestsAside,
         UNCHANGED <<issued, inviteTo, games, running, launch>>
  PROVE  IInv'
<1>0. /\ lobbies \in [Codes -> Lobby \cup {NoLobby}]
      /\ lobbies[k] \in Lobby
      /\ new \in Lobby
      /\ new # NoLobby
      /\ k \in issued
  BY SpecialAssumption DEF IInv, TypeOK, Edits, CodesAreIssued
<1>a. \A a \in granted' : a \in granted \/ \E s \in new.claimed : a = [code |-> k, seat |-> s, token |-> new.tokens[s]]
  BY DEF Grants
<1>1. TypeOK'
  <2>1. lobbies' \in [Codes -> Lobby \cup {NoLobby}]
    BY <1>0
  <2>2. \A s \in new.claimed : [code |-> k, seat |-> s, token |-> new.tokens[s]] \in Access
    BY <1>0 DEF Lobby, Access
  <2>3. granted' \in SUBSET Access
    BY <1>a, <2>2 DEF IInv, TypeOK
  <2> QED
    BY <2>1, <2>3 DEF IInv, TypeOK, RequestsAside, Requests
<1>2. CodesAreIssued'
  BY <1>0, <1>a DEF IInv, CodesAreIssued
<1>3. LaunchInv' /\ NoSessionIsLost'
  BY DEF IInv, LaunchInv, NoSessionIsLost
<1>4. RequestInv'
  BY AsideRequests
<1>5. GrantInv'
  <2> SUFFICES ASSUME NEW a \in granted', lobbies'[a.code] # NoLobby
               PROVE  /\ a.token <= lobbies'[a.code].tokens[a.seat]
                      /\ a.seat \notin lobbies'[a.code].claimed => a.token < lobbies'[a.code].tokens[a.seat]
    BY DEF GrantInv
  <2>1. a \in Access
    BY <1>1 DEF TypeOK
  <2>2. CASE a \in granted /\ a.code # k
    BY <1>0, <2>1, <2>2 DEF IInv, GrantInv, Access
  <2>3. CASE a \in granted /\ a.code = k
    <3>1. /\ a.token <= lobbies[k].tokens[a.seat]
          /\ a.seat \notin lobbies[k].claimed => a.token < lobbies[k].tokens[a.seat]
      BY <2>3 DEF IInv, GrantInv
    <3>2. lobbies'[k] = new
      BY <1>0
    <3>3. /\ a.seat \in Seats /\ a.token \in Nat
          /\ lobbies[k].tokens[a.seat] \in Nat /\ new.tokens[a.seat] \in Nat
      BY <1>0, <2>1, LobbyAssumption DEF Access, Lobby
    <3>4. /\ lobbies[k].tokens[a.seat] <= new.tokens[a.seat]
          /\ a.seat \in lobbies[k].claimed \ new.claimed => lobbies[k].tokens[a.seat] < new.tokens[a.seat]
      BY <3>3 DEF Edits
    <3> QED
      BY <2>3, <3>1, <3>2, <3>3, <3>4
  <2>4. CASE a \notin granted
    <3>1. PICK s \in new.claimed : a = [code |-> k, seat |-> s, token |-> new.tokens[s]]
      BY <1>a, <2>4
    <3>2. s \in Seats /\ new.tokens[s] \in Nat
      BY <1>0, LobbyAssumption DEF Lobby
    <3> QED
      BY <1>0, <3>1, <3>2
  <2> QED
    BY <2>2, <2>3, <2>4
<1>6. StartingInv'
  BY <1>0 DEF IInv, StartingInv, Edits, Launching
<1>7. CodesAreUnique'
  BY <1>0 DEF IInv, CodesAreUnique
<1>8. HostIsSeated'
  BY <1>0 DEF IInv, HostIsSeated, Edits
<1>9. HolderInv'
  BY <1>0, HoldersStay DEF Grants
<1> QED
  BY <1>1, <1>2, <1>3, <1>4, <1>5, <1>6, <1>7, <1>8, <1>9 DEF IInv

\* Lobbies may close, whatever launches and requests are under way for them.
LEMMA CloseLobbies ==
  ASSUME IInv, NEW C \in SUBSET Codes,
         lobbies' = [k \in Codes |-> IF k \in C THEN NoLobby ELSE lobbies[k]],
         RequestsAside, UNCHANGED <<issued, inviteTo, games, running, launch, granted>>
  PROVE  IInv'
<1>1. TypeOK'
  BY DEF IInv, TypeOK, RequestsAside, Requests
<1>2. CodesAreIssued'
  BY DEF IInv, CodesAreIssued
<1>3. LaunchInv' /\ NoSessionIsLost'
  BY DEF IInv, LaunchInv, NoSessionIsLost
<1>4. RequestInv'
  BY AsideRequests
<1>5. GrantInv'
  BY DEF IInv, TypeOK, Access, GrantInv
<1>6. StartingInv'
  BY DEF IInv, StartingInv, Launching
<1>7. CodesAreUnique'
  BY DEF IInv, TypeOK, Game, CodesAreUnique
<1>8. HostIsSeated'
  BY DEF IInv, HostIsSeated
<1>9. HolderInv'
  BY HoldersStay
<1> QED
  BY <1>1, <1>2, <1>3, <1>4, <1>5, <1>6, <1>7, <1>8, <1>9 DEF IInv

-----------------------------------------------------------------------------
(* The requests of players.                                                 *)

LEMMA LobbyFields ==
  ASSUME NEW L \in Lobby
  PROVE  /\ L.claimed \in (SUBSET Seats) \ {{}}
         /\ L.host \in Seats /\ L.ready \in SUBSET Seats /\ L.chosen \in SUBSET Seats
         /\ L.tokens \in [Seats -> 0..MaxToken] /\ L.fresh \in SUBSET Seats
         /\ L.status \in {"waiting", "starting", "failed"}
BY DEF Lobby

LEMMA LobbyOf ==
  ASSUME IInv, NEW k \in Codes, lobbies[k] # NoLobby
  PROVE  lobbies[k] \in Lobby /\ lobbies[k].host \in lobbies[k].claimed
BY DEF IInv, TypeOK, HostIsSeated

LEMMA PlayersHold ==
  ASSUME IInv, NEW k \in Codes, lobbies[k] # NoLobby, NEW L,
         L.claimed \subseteq lobbies[k].claimed,
         \A s \in L.claimed : L.tokens[s] = lobbies[k].tokens[s]
  PROVE  Holding(k, L, granted)
BY DEF IInv, HolderInv, Holding

LEMMA NoRequestChanges ==
  ASSUME IInv, UNCHANGED requests
  PROVE  RequestsAside
BY DEF IInv, TypeOK, RequestsAside, Requests

LEMMA AnsweredAside ==
  ASSUME IInv, NEW w \in Workers, Answered(w)
  PROVE  RequestsAside
BY DEF IInv, TypeOK, RequestsAside, Requests, Answered

LEMMA CreateLobbyInv ==
  ASSUME IInv, NEW k \in Codes, NEW host \in Seats, CreateLobby(k, host)
  PROVE  IInv'
<1> PICK decks \in SUBSET Seats :
      lobbies' = [lobbies EXCEPT ![k] =
        [claimed |-> {host}, host |-> host, ready |-> {}, chosen |-> decks,
         tokens |-> [s \in Seats |-> 0], fresh |-> {host}, status |-> "waiting"]]
  BY DEF CreateLobby
<1> DEFINE new == [claimed |-> {host}, host |-> host, ready |-> {}, chosen |-> decks,
                   tokens |-> [s \in Seats |-> 0], fresh |-> {host}, status |-> "waiting"]
           a0 == [code |-> k, seat |-> host, token |-> 0]
<1>0. /\ lobbies \in [Codes -> Lobby \cup {NoLobby}]
      /\ lobbies' = [lobbies EXCEPT ![k] = new]
      /\ granted' = granted \cup {a0}
      /\ issued' = issued \cup {k}
      /\ k \notin issued /\ lobbies[k] = NoLobby /\ inviteTo[k] = NoLaunch
      /\ UNCHANGED <<inviteTo, games, running, launch, requests>>
  BY DEF IInv, TypeOK, CreateLobby, FreeCode, UnusedCode
<1>a. new \in Lobby /\ new # NoLobby /\ a0 \in Access
  <2>1. 0 \in 0..MaxToken
    BY LobbyAssumption
  <2>2. new \in Lobby
    BY <2>1 DEF Lobby
  <2>3. a0 \in Access
    BY <2>1 DEF Access
  <2> QED
    BY <2>2, <2>3, SpecialAssumption
<1>b. lobbies'[k] = new /\ \A j \in Codes \ {k} : lobbies'[j] = lobbies[j]
  BY <1>0
<1> HIDE DEF new
<1>1. TypeOK'
  BY <1>0, <1>a DEF IInv, TypeOK
<1>2. CodesAreIssued'
  BY <1>0, <1>b DEF IInv, CodesAreIssued
<1>3. LaunchInv' /\ NoSessionIsLost'
  BY <1>0 DEF IInv, LaunchInv, NoSessionIsLost
<1>4. RequestInv'
  BY <1>0, NoRequestChanges, AsideRequests
<1>5. GrantInv'
  <2>1. \A a \in granted : a.code # k
    BY <1>0 DEF IInv, CodesAreIssued
  <2>2. new.tokens[host] = 0 /\ host \in new.claimed
    BY DEF new
  <2>3. \A a \in granted : a.code \in Codes
    BY DEF IInv, TypeOK, Access
  <2>4. \A a \in granted : lobbies'[a.code] = lobbies[a.code]
    BY <1>b, <2>1, <2>3
  <2> QED
    BY <1>0, <1>b, <2>2, <2>4 DEF IInv, GrantInv
<1>6. StartingInv'
  <2>1. Launching(k) = {}
    BY <1>0 DEF IInv, CodesAreIssued, Launching
  <2>2. new.status = "waiting"
    BY DEF new
  <2> QED
    BY <1>0, <1>b, <2>1, <2>2 DEF IInv, StartingInv, Launching
<1>7. CodesAreUnique'
  BY <1>0, <1>b DEF IInv, CodesAreUnique
<1>8. HostIsSeated'
  <2>1. new.host \in new.claimed
    BY DEF new
  <2> QED
    BY <1>0, <1>b, <2>1 DEF IInv, HostIsSeated
<1>9. HolderInv'
  <2>1. new.claimed = {host} /\ new.tokens[host] = 0
    BY DEF new
  <2>2. Holding(k, new, granted')
    BY <1>0, <2>1 DEF Holding
  <2> QED
    BY <1>0, <1>b, <2>2, HoldersStay
<1> QED
  BY <1>1, <1>2, <1>3, <1>4, <1>5, <1>6, <1>7, <1>8, <1>9 DEF IInv

LEMMA SeatedInv ==
  ASSUME IInv, NEW k \in Codes, lobbies[k] # NoLobby, NEW s \in Seats, Seated(k, s)
  PROVE  IInv'
<1> DEFINE old == lobbies[k]
           new == [old EXCEPT !.claimed = @ \cup {s}, !.fresh = @ \cup {s}, !.ready = @ \ {s}]
<1>1. lobbies' = [lobbies EXCEPT ![k] = new]
  BY DEF Seated
<1>0. old \in Lobby /\ old.host \in old.claimed
  BY LobbyOf
<1>2. Edits(old, new)
  <2>1. /\ new.claimed = old.claimed \cup {s}
        /\ new.host = old.host /\ new.tokens = old.tokens /\ new.status = old.status
    BY <1>0 DEF Lobby
  <2>2. new \in Lobby
    BY <1>0, LobbyFields DEF Lobby
  <2>3. \A r \in Seats : old.tokens[r] <= new.tokens[r]
    BY <1>0, <2>1, LobbyAssumption DEF Lobby
  <2> HIDE DEF new
  <2> QED
    BY <1>0, <2>1, <2>2, <2>3 DEF Edits
<1>3. Grants(k, new)
  <2>1. new.claimed = old.claimed \cup {s} /\ new.tokens = old.tokens
    BY <1>0 DEF Lobby
  <2>2. granted' = granted \cup {[code |-> k, seat |-> s, token |-> old.tokens[s]]}
    BY DEF Seated
  <2>3. Holding(k, old, granted)
    BY PlayersHold
  <2> HIDE DEF new, old
  <2> QED
    BY <2>1, <2>2, <2>3 DEF Grants, Holding
<1> QED
  BY <1>1, <1>2, <1>3, NoRequestChanges, EditLobby DEF Seated

LEMMA JoinLobbyInv ==
  ASSUME IInv, NEW k \in Codes, JoinLobby(k)
  PROVE  IInv'
<1>1. lobbies[k] # NoLobby
  BY DEF JoinLobby
<1>2. Min(Seats \ lobbies[k].claimed) \in Seats
  <2> DEFINE free == Seats \ lobbies[k].claimed
  <2>1. lobbies[k].claimed \in SUBSET Seats
    BY <1>1, LobbyOf, LobbyFields
  <2>2. free \in SUBSET Seats /\ free # {}
    BY <2>1 DEF JoinLobby
  <2> HIDE DEF free
  <2>3. Min(free) \in free
    BY <2>2, FirstSeat
  <2>4. Min(free) \in Seats
    BY <2>2, <2>3
  <2> QED
    BY <2>4 DEF free
<1> QED
  BY <1>1, <1>2, SeatedInv DEF JoinLobby

LEMMA GrantedType ==
  ASSUME IInv, NEW a \in granted
  PROVE  a.code \in Codes /\ a.seat \in Seats
BY DEF IInv, TypeOK, Access

\* A player is heard of, whatever request comes with it.
LEMMA HeardInv ==
  ASSUME IInv, NEW a \in granted, Authentic(a), RequestsAside,
         lobbies' = [lobbies EXCEPT ![a.code].fresh = @ \cup {a.seat}],
         UNCHANGED <<issued, inviteTo, games, running, launch, granted>>
  PROVE  IInv'
<1> DEFINE k == a.code
           old == lobbies[k]
           new == [old EXCEPT !.fresh = @ \cup {a.seat}]
<1>0. k \in Codes /\ a.seat \in Seats /\ lobbies[k] # NoLobby
  BY GrantedType DEF Authentic
<1>1. lobbies' = [lobbies EXCEPT ![k] = new]
  OBVIOUS
<1>2. Edits(old, new)
  BY <1>0, LobbyOf, LobbyAssumption DEF Lobby, Edits
<1>3. Grants(k, new)
  <2>1. new.claimed = old.claimed /\ new.tokens = old.tokens
    BY <1>0, LobbyOf DEF Lobby
  <2> HIDE DEF new
  <2> QED
    BY <1>0, <2>1, PlayersHold DEF Grants
<1> QED
  BY <1>0, <1>1, <1>2, <1>3, EditLobby

LEMMA AuthenticateInv ==
  ASSUME IInv, NEW a \in granted, NEW w \in Workers, NEW op \in {"leave", "update"},
         Authenticate(w, a, op)
  PROVE  IInv'
<1>1. [op |-> op, code |-> a.code, seat |-> a.seat] \in LobbyRequests
  BY GrantedType DEF LobbyRequests
<1>2. RequestsAside
  BY <1>1 DEF IInv, TypeOK, RequestsAside, Requests, Authenticate
<1> QED
  BY <1>2, HeardInv DEF Authenticate

LEMMA SilentInv ==
  ASSUME IInv, NEW k \in Codes, NEW s \in Seats, Silent(k, s)
  PROVE  IInv'
<1> DEFINE old == lobbies[k]
           new == [old EXCEPT !.fresh = @ \ {s}]
<1>0. lobbies[k] # NoLobby
  BY DEF Silent
<1>1. lobbies' = [lobbies EXCEPT ![k] = new]
  BY DEF Silent
<1>2. Edits(old, new)
  BY <1>0, LobbyOf, LobbyAssumption DEF Lobby, Edits
<1>3. Grants(k, new)
  <2>1. new.claimed = old.claimed /\ new.tokens = old.tokens
    BY <1>0, LobbyOf DEF Lobby
  <2> HIDE DEF new
  <2> QED
    BY <1>0, <2>1, PlayersHold DEF Grants, Silent
<1> QED
  BY <1>0, <1>1, <1>2, <1>3, NoRequestChanges, EditLobby DEF Silent

LEMMA SweepInv ==
  ASSUME IInv, Sweep
  PROVE  IInv'
<1> DEFINE stale == {k \in Codes : lobbies[k] # NoLobby /\ lobbies[k].fresh \cap lobbies[k].claimed = {}}
<1>1. lobbies' = [k \in Codes |-> IF k \in stale THEN NoLobby ELSE lobbies[k]]
  BY DEF Sweep
<1> QED
  BY <1>1, NoRequestChanges, CloseLobbies DEF Sweep

LEMMA RequestType ==
  ASSUME NEW w \in Workers, requests[w] \in LobbyRequests
  PROVE  requests[w].code \in Codes /\ requests[w].seat \in Seats
BY DEF LobbyRequests

\* What is left of a lobby whose player leaves is a lobby with a host.
LEMMA LeftIsLobby ==
  ASSUME NEW old \in Lobby, old.host \in old.claimed, NEW s \in Seats, old.tokens[s] < MaxToken,
         Vacated(old, s).claimed # {}
  PROVE  LET left == Vacated(old, s)
             new == Hosted(left, s)
         IN  /\ new \in Lobby /\ new.host \in new.claimed
             /\ new.claimed = left.claimed /\ new.status = left.status /\ new.tokens = left.tokens
             /\ left.claimed = old.claimed \ {s} /\ left.status = old.status
             /\ left.tokens = [old.tokens EXCEPT ![s] = @ + 1]
<1> DEFINE left == Vacated(old, s)
           new == Hosted(left, s)
<1>1. left \in Lobby
  <2>1. /\ old.tokens \in [Seats -> 0..MaxToken]
        /\ old.tokens[s] + 1 \in 0..MaxToken
    BY LobbyAssumption DEF Lobby
  <2>2. [old.tokens EXCEPT ![s] = @ + 1] \in [Seats -> 0..MaxToken]
    BY <2>1
  <2>3. old.claimed \ {s} \in (SUBSET Seats) \ {{}}
    BY DEF Lobby, Vacated
  <2>4. /\ old.fresh \ {s} \in SUBSET Seats
        /\ old.ready \ {s} \in SUBSET Seats
        /\ old.chosen \ {s} \in SUBSET Seats
        /\ old.host \in Seats
        /\ old.status \in {"waiting", "starting", "failed"}
    BY DEF Lobby
  <2> QED
    BY <2>2, <2>3, <2>4 DEF Lobby, Vacated
<1>2. left.claimed \in SUBSET Seats /\ Min(left.claimed) \in left.claimed
  BY <1>1, FirstSeat DEF Lobby
<1>3. /\ left.claimed = old.claimed \ {s}
      /\ left.host = old.host
      /\ left.status = old.status
      /\ left.tokens = [old.tokens EXCEPT ![s] = @ + 1]
  BY DEF Lobby, Vacated
<1>4. /\ new \in Lobby
      /\ new.host \in new.claimed
      /\ new.claimed = left.claimed /\ new.status = left.status /\ new.tokens = left.tokens
  <2> HIDE DEF left
  <2>1. CASE left.host = s
    BY <1>1, <1>2, <2>1 DEF Lobby, Hosted
  <2>2. CASE left.host # s
    BY <1>1, <1>3, <2>2 DEF Hosted
  <2> QED
    BY <2>1, <2>2
<1> QED
  BY <1>1, <1>3, <1>4

LEMMA LeaveLobbyInv ==
  ASSUME IInv, NEW w \in Workers, LeaveLobby(w)
  PROVE  IInv'
<1> DEFINE k == requests[w].code
           s == requests[w].seat
           old == lobbies[k]
           left == Vacated(old, s)
           new == Hosted(left, s)
<1>0. /\ k \in Codes /\ s \in Seats
      /\ old # NoLobby
      /\ old \in Lobby /\ old.host \in old.claimed
      /\ old.tokens[s] < MaxToken
      /\ RequestsAside
  BY RequestType, LobbyOf, AnsweredAside DEF LeaveLobby
<1>1. CASE left.claimed = {}
  <2>1. lobbies' = [lobbies EXCEPT ![k] = NoLobby]
    BY <1>1 DEF LeaveLobby
  <2>2. lobbies' = [j \in Codes |-> IF j \in {k} THEN NoLobby ELSE lobbies[j]]
    BY <1>0, <2>1 DEF IInv, TypeOK
  <2> HIDE DEF k
  <2> QED
    BY <1>0, <2>2, CloseLobbies, ZenonT(40) DEF LeaveLobby
<1>2. CASE left.claimed # {}
  <2>1. lobbies' = [lobbies EXCEPT ![k] = new]
    BY <1>2 DEF LeaveLobby
  <2>2. /\ new \in Lobby
        /\ new.host \in new.claimed
        /\ new.claimed = left.claimed /\ new.status = left.status /\ new.tokens = left.tokens
        /\ left.claimed = old.claimed \ {s} /\ left.status = old.status
        /\ left.tokens = [old.tokens EXCEPT ![s] = @ + 1]
    BY <1>0, <1>2, LeftIsLobby
  <2>3. Edits(old, new)
    <3>1. old.tokens \in [Seats -> 0..MaxToken]
      BY <1>0 DEF Lobby
    <3>2. \A r \in Seats : old.tokens[r] <= left.tokens[r] /\ (r = s => old.tokens[r] < left.tokens[r])
      <4> DEFINE before == old.tokens
                 after == left.tokens
      <4>1. /\ before \in [Seats -> 0..MaxToken] /\ after = [before EXCEPT ![s] = @ + 1]
            /\ s \in Seats /\ MaxToken \in Nat
        BY <1>0, <2>2, <3>1, LobbyAssumption
      <4> HIDE DEF before, after
      <4>2. \A r \in Seats : before[r] \in Nat
        BY <4>1
      <4>3. after[s] = before[s] + 1 /\ \A r \in Seats \ {s} : after[r] = before[r]
        BY <4>1
      <4>4. \A r \in Seats : before[r] <= after[r] /\ (r = s => before[r] < after[r])
        BY <4>1, <4>2, <4>3, SMTT(30)
      <4> QED
        BY <4>4 DEF before, after
    <3> QED
      BY <2>2, <3>2 DEF Edits
  <2>4. Grants(k, new)
    <3>1. new.claimed \subseteq old.claimed
      BY <2>2
    <3>2. /\ new.claimed \subseteq Seats \ {s}
          /\ old.tokens \in [Seats -> 0..MaxToken]
          /\ new.tokens = [old.tokens EXCEPT ![s] = @ + 1]
      BY <1>0, <2>2 DEF Lobby
    <3>3. \A r \in new.claimed : new.tokens[r] = old.tokens[r]
      <4> HIDE DEF new, old
      <4> QED
        BY <3>2
    <3> HIDE DEF new, k
    <3>4. Holding(k, new, granted)
      BY <1>0, <3>1, <3>3, PlayersHold
    <3> QED
      BY <3>4 DEF Grants, LeaveLobby
  <2> HIDE DEF new, k
  <2> QED
    BY <1>0, <2>1, <2>3, <2>4, EditLobby DEF LeaveLobby
<1> QED
  BY <1>1, <1>2

-----------------------------------------------------------------------------
(* Updates of a seat.                                                       *)

\* The lobby with its seats as they were.
SameSeats(old, new) ==
  /\ new \in Lobby
  /\ new.claimed = old.claimed /\ new.host = old.host
  /\ new.tokens = old.tokens /\ new.status = old.status

LEMMA DeckAndReadySeats ==
  ASSUME NEW old \in Lobby, NEW s \in Seats
  PROVE  /\ \A deck \in {"same", "chosen", "random"} : SameSeats(old, DeckSet(old, s, deck))
         /\ \A ready \in {"same", "yes", "no"} : SameSeats(old, ReadySet(old, s, ready))
<1>1. ASSUME NEW C \in SUBSET Seats, NEW R \in SUBSET Seats
      PROVE  /\ SameSeats(old, [old EXCEPT !.chosen = C, !.ready = R])
             /\ SameSeats(old, [old EXCEPT !.ready = R])
  BY LobbyFields DEF SameSeats, Lobby
<1>2. /\ old.chosen \cup {s} \in SUBSET Seats /\ old.chosen \ {s} \in SUBSET Seats
      /\ old.ready \cup {s} \in SUBSET Seats /\ old.ready \ {s} \in SUBSET Seats
  BY LobbyFields
<1>3. SameSeats(old, old)
  BY DEF SameSeats
<1>4. ASSUME NEW deck \in {"same", "chosen", "random"} PROVE SameSeats(old, DeckSet(old, s, deck))
  <2>1. CASE deck = "same"
    BY <2>1, <1>3 DEF DeckSet
  <2>2. CASE deck = "chosen"
    BY <2>2, <1>1, <1>2 DEF DeckSet
  <2>3. CASE deck = "random"
    BY <2>3, <1>1, <1>2 DEF DeckSet
  <2> QED
    BY <2>1, <2>2, <2>3
<1>5. ASSUME NEW ready \in {"same", "yes", "no"} PROVE SameSeats(old, ReadySet(old, s, ready))
  <2>1. CASE ready = "same"
    BY <2>1, <1>3 DEF ReadySet
  <2>2. CASE ready = "yes"
    BY <2>2, <1>1, <1>2 DEF ReadySet
  <2>3. CASE ready = "no"
    BY <2>3, <1>1, <1>2 DEF ReadySet
  <2> QED
    BY <2>1, <2>2, <2>3
<1> QED
  BY <1>4, <1>5

\* The same seats are an edit of a lobby, also when its status becomes another
\* that is not starting.
LEMMA SameSeatsEdit ==
  ASSUME NEW old \in Lobby, old.host \in old.claimed, NEW new, SameSeats(old, new)
  PROVE  /\ Edits(old, new)
         /\ old.status # "starting" => Edits(old, [new EXCEPT !.status = "waiting"])
<1>1. \A s \in Seats : old.tokens[s] <= new.tokens[s]
  BY LobbyAssumption DEF SameSeats, Lobby
<1>2. [new EXCEPT !.status = "waiting"] \in Lobby
  BY DEF SameSeats, Lobby
<1>3. LET w == [new EXCEPT !.status = "waiting"]
      IN  w.claimed = new.claimed /\ w.host = new.host /\ w.tokens = new.tokens /\ w.status = "waiting"
  BY DEF SameSeats, Lobby
<1>4. Edits(old, new)
  BY <1>1 DEF SameSeats, Edits
<1>5. ASSUME old.status # "starting" PROVE Edits(old, [new EXCEPT !.status = "waiting"])
  <2> DEFINE w == [new EXCEPT !.status = "waiting"]
  <2>1. \A s \in Seats : old.tokens[s] <= w.tokens[s]
    BY <1>1, <1>3
  <2> HIDE DEF w
  <2> QED
    BY <1>2, <1>3, <1>5, <2>1 DEF SameSeats, Edits, w
<1> QED
  BY <1>4, <1>5

\* The update that completes a lobby starts its launch.
LEMMA StartInv ==
  ASSUME IInv, NEW k \in Codes, lobbies[k] # NoLobby, Open(lobbies[k]),
         NEW new, SameSeats(lobbies[k], new), NEW n \in Launches, NextLaunch(n),
         lobbies' = [lobbies EXCEPT ![k] = [new EXCEPT !.status = "starting"]],
         launch' = [launch EXCEPT ![n].pc = "clone", ![n].code = k],
         RequestsAside, UNCHANGED <<issued, inviteTo, games, running, granted>>
  PROVE  IInv'
<1> DEFINE old == lobbies[k]
           st == [new EXCEPT !.status = "starting"]
<1>0. /\ old \in Lobby /\ old.host \in old.claimed /\ old.status # "starting"
      /\ k \in issued
      /\ lobbies \in [Codes -> Lobby \cup {NoLobby}]
      /\ launch \in [Launches -> Launch]
      /\ launch[n].pc = "none"
  BY LobbyOf DEF IInv, TypeOK, CodesAreIssued, Open, NextLaunch
<1>1. /\ st \in Lobby /\ st # NoLobby
      /\ st.claimed = old.claimed /\ st.host = old.host
      /\ st.tokens = old.tokens /\ st.status = "starting"
  <2>1. st \in Lobby
    BY DEF SameSeats, Lobby
  <2>2. st.claimed = new.claimed /\ st.host = new.host /\ st.tokens = new.tokens /\ st.status = "starting"
    BY DEF SameSeats, Lobby
  <2> QED
    BY <2>1, <2>2, SpecialAssumption DEF SameSeats
<1>2. lobbies'[k] = st /\ \A j \in Codes \ {k} : lobbies'[j] = lobbies[j]
  BY <1>0
<1>3. launch[n].game = NoGame /\ launch[n].code = NoLobby
  BY <1>0 DEF Launch
<1>4. /\ launch'[n].pc = "clone" /\ launch'[n].code = k
      /\ \A m \in Launches \ {n} : launch'[m] = launch[m]
      /\ launch' \in [Launches -> Launch]
  <2> DEFINE l == [launch[n] EXCEPT !.pc = "clone", !.code = k]
  <2>1. launch[n] \in [pc : {"none", "host", "done", "abandoned"}, game : {NoGame}, code : {NoLobby}]
    BY <1>0 DEF Launch
  <2>2. l \in [pc : {"clone"}, game : {NoGame}, code : Codes] /\ l.code = k
    BY <2>1
  <2>3. launch' = [launch EXCEPT ![n] = l]
    OBVIOUS
  <2>4. l \in Launch
    BY <2>2 DEF Launch
  <2>5. l.pc = "clone" /\ l.code = k
    BY <2>2
  <2> HIDE DEF l
  <2> QED
    BY <1>0, <2>3, <2>4, <2>5, ZenonT(40)
<1> HIDE DEF st
<1>5. TypeOK'
  <2>1. lobbies' \in [Codes -> Lobby \cup {NoLobby}]
    BY <1>0, <1>1 DEF st
  <2> QED
    BY <1>4, <2>1 DEF IInv, TypeOK, RequestsAside, Requests
<1>6. CodesAreIssued'
  BY <1>0, <1>2, <1>4 DEF IInv, CodesAreIssued
<1>7. LaunchInv'
  BY <1>0, <1>4 DEF IInv, LaunchInv
<1>8. RequestInv'
  <2>1. \A w \in Workers : requests'[w] \in GameRequests => requests'[w] = requests[w]
    BY SpecialAssumption DEF RequestsAside, LobbyRequests, GameRequests
  <2>2. \A w \in Workers : requests[w] \in GameRequests => requests[w].session \in Launches \ {n}
    BY <1>0 DEF IInv, RequestInv, GameRequests
  <2> QED
    BY <1>4, <2>1, <2>2 DEF IInv, RequestInv
<1>9. GrantInv'
  <2>1. \A a \in granted : a.code \in Codes
    BY GrantedType
  <2> QED
    BY <1>1, <1>2, <2>1 DEF IInv, GrantInv
<1>10. StartingInv'
  <2>1. Launching(k) = {}
    BY <1>0 DEF IInv, StartingInv
  <2>2. Launching(k)' = {n}
    BY <1>4, <2>1 DEF Launching
  <2>3. \A j \in Codes \ {k} : Launching(j)' = Launching(j)
    BY <1>3, <1>4, SpecialAssumption DEF Launching
  <2> QED
    BY <1>1, <1>2, <2>2, <2>3 DEF IInv, StartingInv
<1>11. CodesAreUnique'
  BY <1>0, <1>2 DEF IInv, CodesAreUnique
<1>12. HostIsSeated'
  BY <1>0, <1>1, <1>2 DEF IInv, HostIsSeated
<1>13. NoSessionIsLost'
  BY <1>0, <1>4 DEF IInv, TypeOK, NoSessionIsLost
<1>14. HolderInv'
  <2>1. Holding(k, st, granted)
    BY <1>1, PlayersHold
  <2>2. \A j \in Codes : lobbies'[j] = lobbies[j] \/ Holding(j, lobbies'[j], granted)
    BY <1>2, <2>1
  <2> QED
    BY <1>4, <2>2, HoldersStay
<1> QED
  BY <1>5, <1>6, <1>7, <1>8, <1>9, <1>10, <1>11, <1>12, <1>13, <1>14 DEF IInv

LEMMA UpdatedInv ==
  ASSUME IInv, NEW k \in Codes, lobbies[k] # NoLobby, Open(lobbies[k]),
         NEW new, SameSeats(lobbies[k], new), Updated(k, new),
         RequestsAside, UNCHANGED <<issued, inviteTo, games, running, granted>>
  PROVE  IInv'
<1>1. CASE CanStart(new)
  BY <1>1, StartInv DEF Updated
<1>2. CASE ~CanStart(new)
  <2>1. Edits(lobbies[k], [new EXCEPT !.status = "waiting"])
    BY LobbyOf, SameSeatsEdit DEF Open
  <2>2. Grants(k, [new EXCEPT !.status = "waiting"])
    <3> DEFINE waiting == [new EXCEPT !.status = "waiting"]
    <3>1. waiting.claimed = lobbies[k].claimed /\ waiting.tokens = lobbies[k].tokens
      BY DEF SameSeats, Lobby
    <3> HIDE DEF waiting
    <3>2. Holding(k, waiting, granted)
      BY <3>1, PlayersHold
    <3>3. Grants(k, waiting)
      BY <3>2 DEF Grants
    <3> QED
      BY <3>3 DEF waiting
  <2> QED
    BY <1>2, <2>1, <2>2, EditLobby DEF Updated
<1> QED
  BY <1>1, <1>2

LEMMA UpdateOwnSeatInv ==
  ASSUME IInv, NEW w \in Workers, UpdateOwnSeat(w)
  PROVE  IInv'
<1> DEFINE k == requests[w].code
           s == requests[w].seat
           old == lobbies[k]
<1>0. /\ k \in Codes /\ s \in Seats
      /\ old # NoLobby /\ Open(old)
      /\ old \in Lobby /\ old.host \in old.claimed
      /\ RequestsAside
      /\ UNCHANGED <<issued, inviteTo, games, running, granted>>
  BY RequestType, LobbyOf, AnsweredAside DEF UpdateOwnSeat
<1>1. PICK deck \in {"same", "chosen", "random"}, ready \in {"same", "yes", "no"}, renamed \in BOOLEAN :
        LET edited == ReadySet(DeckSet(old, s, deck), s, IF renamed THEN "no" ELSE "same")
        IN IF ready = "yes" /\ s \notin edited.chosen
           THEN lobbies' = [lobbies EXCEPT ![k] = edited] /\ UNCHANGED launch
           ELSE Updated(k, ReadySet(edited, s, ready))
  BY DEF UpdateOwnSeat
<1> DEFINE decked == DeckSet(old, s, deck)
           edited == ReadySet(decked, s, IF renamed THEN "no" ELSE "same")
           new == ReadySet(edited, s, ready)
<1>2. SameSeats(old, decked)
  BY <1>0, DeckAndReadySeats
<1>3. SameSeats(old, edited)
  <2>1. SameSeats(decked, edited)
    BY <1>0, <1>2, DeckAndReadySeats DEF SameSeats
  <2> QED
    BY <1>2, <2>1 DEF SameSeats
<1>4. SameSeats(old, new)
  <2>1. SameSeats(edited, new)
    BY <1>0, <1>3, DeckAndReadySeats, ZenonT(40) DEF SameSeats
  <2> QED
    BY <1>3, <2>1 DEF SameSeats
<1> HIDE DEF k, decked, edited, new
<1>5. CASE ready = "yes" /\ s \notin edited.chosen
  <2>1. lobbies' = [lobbies EXCEPT ![k] = edited] /\ UNCHANGED launch
    BY <1>1, <1>5 DEF decked, edited
  <2>2. Edits(lobbies[k], edited)
    BY <1>0, <1>3, SameSeatsEdit
  <2>3. Grants(k, edited)
    BY <1>0, <1>3, PlayersHold DEF Grants, SameSeats
  <2> QED
    BY <1>0, <2>1, <2>2, <2>3, EditLobby
<1>6. CASE ~(ready = "yes" /\ s \notin edited.chosen)
  <2>1. Updated(k, new)
    BY <1>1, <1>6 DEF decked, edited, new
  <2> QED
    BY <1>0, <1>4, <2>1, UpdatedInv
<1> QED
  BY <1>5, <1>6

LEMMA UpdateFreeSeatInv ==
  ASSUME IInv, NEW w \in Workers, UpdateFreeSeat(w)
  PROVE  IInv'
<1> DEFINE k == requests[w].code
           old == lobbies[k]
<1>0. /\ k \in Codes
      /\ old # NoLobby /\ Open(old)
      /\ old \in Lobby
      /\ RequestsAside
      /\ UNCHANGED <<issued, inviteTo, games, running, granted>>
  BY RequestType, LobbyOf, AnsweredAside DEF UpdateFreeSeat
<1>1. CASE Updated(k, old)
  <2>1. SameSeats(old, old)
    BY <1>0 DEF SameSeats
  <2> QED
    BY <1>0, <1>1, <2>1, UpdatedInv
<1>2. CASE \E s \in Seats, deck \in {"chosen", "random"} : Updated(k, DeckSet(old, s, deck))
  <2>1. PICK s \in Seats, deck \in {"chosen", "random"} : Updated(k, DeckSet(old, s, deck))
    BY <1>2
  <2>2. SameSeats(old, DeckSet(old, s, deck))
    BY <1>0, DeckAndReadySeats
  <2> QED
    BY <1>0, <2>1, <2>2, UpdatedInv
<1> QED
  BY <1>1, <1>2 DEF UpdateFreeSeat

LEMMA LobbyRefusesInv ==
  ASSUME IInv, NEW w \in Workers, LobbyRefuses(w)
  PROVE  IInv'
<1>1. RequestsAside
  BY AnsweredAside DEF LobbyRefuses
<1>2. lobbies' = [k \in Codes |-> IF k \in {} THEN NoLobby ELSE lobbies[k]]
  BY DEF LobbyRefuses, registryVars, IInv, TypeOK
<1>3. {} \in SUBSET Codes /\ UNCHANGED <<issued, inviteTo, games, running, launch, granted>>
  BY DEF LobbyRefuses, registryVars
<1> QED
  BY <1>1, <1>2, <1>3, CloseLobbies

-----------------------------------------------------------------------------
(* Launches.                                                                *)

LEMMA LaunchFields ==
  ASSUME IInv, NEW n \in Launches
  PROVE  /\ launch[n] \in Launch
         /\ launch[n].pc \in {"none", "host", "done", "abandoned"} => launch[n].game = NoGame /\ launch[n].code = NoLobby
         /\ launch[n].pc = "clone" => launch[n].game = NoGame /\ launch[n].code \in Codes
         /\ launch[n].pc \in {"create", "register"} => launch[n].game \in Game /\ launch[n].code \in Codes
         /\ launch[n].pc \in {"none", "host", "done", "abandoned", "clone", "create", "register"}
BY DEF IInv, TypeOK, Launch

\* What a launch becomes that has ended, or whose session create abandoned.
Over(n, pc) == launch' = [launch EXCEPT ![n] = [IdleLaunch EXCEPT !.pc = pc]]

LEMMA OverLaunch ==
  ASSUME IInv, NEW n \in Launches, NEW pc \in {"done", "abandoned"}, Over(n, pc)
  PROVE  /\ launch' \in [Launches -> Launch]
         /\ launch'[n].pc = pc /\ launch'[n].code = NoLobby
         /\ \A m \in Launches \ {n} : launch'[m] = launch[m]
         /\ \A k \in Codes : Launching(k)' = Launching(k) \ {n}
<1> DEFINE done == [IdleLaunch EXCEPT !.pc = pc]
<1>1. done \in Launch /\ done.pc = pc /\ done.code = NoLobby
  BY DEF IdleLaunch, Launch
<1> HIDE DEF done
<1>2. launch' = [launch EXCEPT ![n] = done]
  BY DEF Over, done
<1>3. launch' \in [Launches -> Launch]
  BY <1>1, <1>2 DEF IInv, TypeOK
<1>4. launch'[n] = done /\ \A m \in Launches \ {n} : launch'[m] = launch[m]
  BY <1>2 DEF IInv, TypeOK
<1>5. \A k \in Codes : Launching(k)' = Launching(k) \ {n}
  BY <1>1, <1>4, SpecialAssumption DEF Launching
<1> QED
  BY <1>1, <1>3, <1>4, <1>5

LEMMA EndedLaunch ==
  ASSUME IInv, NEW n \in Launches, LaunchEnds(n)
  PROVE  /\ launch' \in [Launches -> Launch]
         /\ launch'[n].pc = "done" /\ launch'[n].code = NoLobby
         /\ \A m \in Launches \ {n} : launch'[m] = launch[m]
         /\ \A k \in Codes : Launching(k)' = Launching(k) \ {n}
BY OverLaunch DEF LaunchEnds, Over

\* A launch moves on, registered by nobody yet; only it may stop being the one
\* that launches its lobby, which then has failed or closed.
LEMMA LaunchMoves ==
  ASSUME IInv, NEW n \in Launches, launch[n].pc # "done",
         launch' \in [Launches -> Launch],
         \A m \in Launches \ {n} : launch'[m] = launch[m],
         launch'[n].code \in {launch[n].code, NoLobby},
         launch'[n].pc \in {"create", "register"} =>
           /\ launch'[n].game.code = launch'[n].code
           /\ launch'[n].game.host \in launch'[n].game.claimed,
         issued \subseteq issued'
  PROVE  /\ \A m \in Launches : launch'[m].code \in Codes => launch'[m].code \in issued'
         /\ \A m \in Launches : launch'[m].pc \in {"create", "register"} =>
              /\ launch'[m].game.code = launch'[m].code
              /\ launch'[m].game.host \in launch'[m].game.claimed
         /\ games[n] = NoGame
         /\ \A w \in Workers : requests[w] \in GameRequests =>
              /\ requests[w].session \in Launches \ {n}
              /\ launch'[requests[w].session].pc = "done"
<1>1. games[n] = NoGame
  BY DEF IInv, LaunchInv
<1>2. \A m \in Launches : launch'[m].code \in Codes => launch'[m].code \in issued'
  BY SpecialAssumption DEF IInv, CodesAreIssued
<1>3. \A m \in Launches : launch'[m].pc \in {"create", "register"} =>
              /\ launch'[m].game.code = launch'[m].code
              /\ launch'[m].game.host \in launch'[m].game.claimed
  BY DEF IInv, LaunchInv
<1>4. \A w \in Workers : requests[w] \in GameRequests =>
              /\ requests[w].session \in Launches \ {n}
              /\ launch'[requests[w].session].pc = "done"
  <2> SUFFICES ASSUME NEW w \in Workers, requests[w] \in GameRequests
               PROVE  /\ requests[w].session \in Launches \ {n}
                      /\ launch'[requests[w].session].pc = "done"
    OBVIOUS
  <2>1. requests[w].session \in Launches /\ launch[requests[w].session].pc = "done"
    BY DEF IInv, RequestInv, GameRequests
  <2> QED
    BY <2>1
<1> QED
  BY <1>1, <1>2, <1>3, <1>4

LEMMA CloneLobbyInv ==
  ASSUME IInv, NEW n \in Launches, CloneLobby(n)
  PROVE  IInv'
<1> DEFINE k == launch[n].code
           lobby == lobbies[k]
           game == [code |-> k, claimed |-> lobby.claimed, host |-> lobby.host, tokens |-> lobby.tokens]
<1>0. /\ launch[n].pc = "clone" /\ k \in Codes /\ launch[n].game = NoGame
      /\ UNCHANGED <<registryVars, running, requests, granted>>
  BY LaunchFields DEF CloneLobby
<1>1. /\ launch' \in [Launches -> Launch]
      /\ \A m \in Launches \ {n} : launch'[m] = launch[m]
      /\ launch'[n].code \in {k, NoLobby}
      /\ launch'[n].code = NoLobby => lobbies[k] = NoLobby
      /\ launch'[n].pc \in {"create", "done"}
      /\ launch'[n].pc = "create" =>
           /\ launch'[n].game.code = launch'[n].code
           /\ launch'[n].game.host \in launch'[n].game.claimed
           /\ launch'[n].game = game /\ lobbies[k] # NoLobby
  <2>1. CASE lobby = NoLobby
    <3>1. LaunchEnds(n)
      BY <2>1 DEF CloneLobby
    <3> QED
      BY <2>1, <3>1, EndedLaunch
  <2>2. CASE lobby # NoLobby
    <3> DEFINE l == [launch[n] EXCEPT !.pc = "create", !.game = game]
    <3>1. lobby \in Lobby /\ lobby.host \in lobby.claimed
      BY <1>0, <2>2, LobbyOf
    <3>2. /\ game \in Game
          /\ game.code = k /\ game.host \in game.claimed
      BY <1>0, <3>1 DEF Game, Lobby
    <3> HIDE DEF game
    <3>3. launch[n] \in [pc : {"clone"}, game : {NoGame}, code : Codes]
      BY <1>0, LaunchFields DEF Launch
    <3>4. l \in [pc : {"create"}, game : Game, code : Codes] /\ l.code = k /\ l.game = game
      BY <3>2, <3>3
    <3>5. launch' = [launch EXCEPT ![n] = l]
      BY <2>2 DEF CloneLobby, game
    <3>6. l \in Launch /\ l.pc = "create"
      BY <3>4 DEF Launch
    <3> HIDE DEF l
    <3>7. launch' \in [Launches -> Launch] /\ launch'[n] = l /\ \A m \in Launches \ {n} : launch'[m] = launch[m]
      BY <3>5, <3>6 DEF IInv, TypeOK
    <3>8. k # NoLobby
      BY <1>0, SpecialAssumption
    <3> QED
      BY <2>2, <3>2, <3>4, <3>6, <3>7, <3>8
  <2> QED
    BY <2>1, <2>2
<1>a. game.code = k /\ game.claimed = lobby.claimed /\ game.tokens = lobby.tokens
  OBVIOUS
<1> HIDE DEF game
<1>2. /\ \A m \in Launches : launch'[m].code \in Codes => launch'[m].code \in issued'
      /\ \A m \in Launches : launch'[m].pc \in {"create", "register"} =>
              /\ launch'[m].game.code = launch'[m].code
              /\ launch'[m].game.host \in launch'[m].game.claimed
      /\ games[n] = NoGame
      /\ \A w \in Workers : requests[w] \in GameRequests =>
              /\ requests[w].session \in Launches \ {n}
              /\ launch'[requests[w].session].pc = "done"
  BY <1>0, <1>1, LaunchMoves DEF registryVars
<1>3. TypeOK' /\ CodesAreIssued'
  BY <1>0, <1>1, <1>2 DEF IInv, TypeOK, CodesAreIssued, registryVars
<1>4. LaunchInv' /\ RequestInv'
  BY <1>0, <1>1, <1>2 DEF IInv, LaunchInv, RequestInv, registryVars
<1>5. GrantInv' /\ CodesAreUnique' /\ HostIsSeated'
  BY <1>0 DEF IInv, GrantInv, CodesAreUnique, HostIsSeated, registryVars
<1>6. StartingInv'
  <2>1. \A j \in Codes : lobbies[j] # NoLobby => Launching(j)' = Launching(j)
    BY <1>1, SpecialAssumption DEF Launching
  <2> QED
    BY <1>0, <2>1 DEF IInv, StartingInv, registryVars
<1>7. NoSessionIsLost'
  BY <1>0, <1>1, <1>2 DEF IInv, TypeOK, NoSessionIsLost, registryVars
<1>8. HolderInv'
  <2>1. launch'[n].pc = "create" => Holding(launch'[n].game.code, launch'[n].game, granted)
    BY <1>0, <1>1, <1>a, PlayersHold
  <2> QED
    BY <1>0, <1>1, <2>1, HoldersStay DEF registryVars
<1> QED
  BY <1>3, <1>4, <1>5, <1>6, <1>7, <1>8 DEF IInv

LEMMA LaunchFailsInv ==
  ASSUME IInv, NEW n \in Launches, LaunchFails(n)
  PROVE  IInv'
<1> DEFINE k == launch[n].code
           failed == [lobbies[k] EXCEPT !.status = "failed", !.ready = {}]
<1>0. /\ launch[n].pc = "create" /\ k \in Codes /\ FailLobby(k)
      /\ UNCHANGED <<issued, inviteTo, games, requests, granted>>
      /\ lobbies \in [Codes -> Lobby \cup {NoLobby}]
  BY LaunchFields DEF LaunchFails, IInv, TypeOK
<1> PICK pc \in {"done", "abandoned"} :
      /\ Over(n, pc)
      /\ running' \in SUBSET Launches
      /\ running' \subseteq running \cup {n} /\ running \ {n} \subseteq running'
      /\ pc = "done" => running' = running
  BY DEF LaunchFails, LaunchEnds, SessionAbandoned, Over, IInv, TypeOK
<1>1. /\ launch' \in [Launches -> Launch]
      /\ launch'[n].pc = pc /\ launch'[n].code = NoLobby
      /\ \A m \in Launches \ {n} : launch'[m] = launch[m]
      /\ \A j \in Codes : Launching(j)' = Launching(j) \ {n}
  BY OverLaunch
<1>2. /\ \A m \in Launches : launch'[m].code \in Codes => launch'[m].code \in issued'
      /\ \A m \in Launches : launch'[m].pc \in {"create", "register"} =>
              /\ launch'[m].game.code = launch'[m].code
              /\ launch'[m].game.host \in launch'[m].game.claimed
      /\ games[n] = NoGame
      /\ \A w \in Workers : requests[w] \in GameRequests =>
              /\ requests[w].session \in Launches \ {n}
              /\ launch'[requests[w].session].pc = "done"
  BY <1>0, <1>1, LaunchMoves
<1>3. /\ lobbies' \in [Codes -> Lobby \cup {NoLobby}]
      /\ \A j \in Codes \ {k} : lobbies'[j] = lobbies[j]
      /\ lobbies[k] = NoLobby <=> lobbies'[k] = NoLobby
      /\ lobbies[k] # NoLobby =>
           /\ lobbies'[k].claimed = lobbies[k].claimed /\ lobbies'[k].host = lobbies[k].host
           /\ lobbies'[k].tokens = lobbies[k].tokens /\ lobbies'[k].status = "failed"
  <2>1. CASE lobbies[k] = NoLobby
    BY <1>0, <2>1 DEF FailLobby
  <2>2. CASE lobbies[k] # NoLobby
    <3>1. lobbies[k] \in Lobby
      BY <1>0, <2>2
    <3>2. failed \in Lobby /\ failed.claimed = lobbies[k].claimed /\ failed.host = lobbies[k].host
          /\ failed.tokens = lobbies[k].tokens /\ failed.status = "failed"
      BY <3>1 DEF Lobby
    <3>3. failed # NoLobby
      BY <3>2, SpecialAssumption
    <3>4. lobbies' = [lobbies EXCEPT ![k] = failed]
      BY <1>0, <2>2 DEF FailLobby
    <3> HIDE DEF failed, k
    <3> QED
      BY <1>0, <2>2, <3>2, <3>3, <3>4
  <2> QED
    BY <2>1, <2>2
<1> HIDE DEF k
<1>4. TypeOK' /\ CodesAreIssued'
  BY <1>0, <1>1, <1>2, <1>3 DEF IInv, TypeOK, CodesAreIssued
<1>5. LaunchInv' /\ RequestInv'
  BY <1>0, <1>1, <1>2 DEF IInv, LaunchInv, RequestInv
<1>6. GrantInv'
  <2>1. \A a \in granted : a.code \in Codes
    BY GrantedType
  <2> QED
    BY <1>0, <1>3, <2>1 DEF IInv, GrantInv
<1>7. CodesAreUnique' /\ HostIsSeated'
  BY <1>0, <1>3 DEF IInv, CodesAreUnique, HostIsSeated
<1>8. StartingInv'
  <2> PICK code \in Codes : code = k
    BY <1>0
  <2>1. n \in Launching(code)
    BY DEF Launching, k
  <2>2. lobbies[code] # NoLobby => Launching(code)' = {}
    BY <1>1, <2>1 DEF IInv, StartingInv
  <2>3. \A j \in Codes \ {code} : Launching(j)' = Launching(j)
    BY <1>1 DEF Launching, k
  <2>4. lobbies'[code] # NoLobby => lobbies[code] # NoLobby /\ lobbies'[code].status = "failed"
    BY <1>3
  <2>5. \A j \in Codes \ {code} : lobbies'[j] = lobbies[j]
    BY <1>3
  <2> HIDE DEF k
  <2> QED
    BY <2>2, <2>3, <2>4, <2>5 DEF IInv, StartingInv
<1>9. NoSessionIsLost'
  BY <1>0, <1>1, <1>2 DEF IInv, TypeOK, NoSessionIsLost
<1>10. HolderInv'
  <2>1. lobbies'[k] # NoLobby => Holding(k, lobbies'[k], granted)
    BY <1>0, <1>3, PlayersHold
  <2> QED
    BY <1>0, <1>1, <1>3, <2>1, HoldersStay
<1> QED
  BY <1>4, <1>5, <1>6, <1>7, <1>8, <1>9, <1>10 DEF IInv

LEMMA CreateSessionInv ==
  ASSUME IInv, NEW n \in Launches, CreateSession(n)
  PROVE  IInv'
<1> DEFINE l == [launch[n] EXCEPT !.pc = "register"]
<1>0. /\ launch[n].pc = "create" /\ running' = running \cup {n}
      /\ UNCHANGED <<registryVars, requests, granted>>
  BY DEF CreateSession
<1>1. l \in Launch /\ l.pc = "register" /\ l.code = launch[n].code /\ l.game = launch[n].game
  <2>1. launch[n] \in [pc : {"create", "register"}, game : Game, code : Codes]
    BY <1>0, LaunchFields DEF Launch
  <2>2. /\ l \in [pc : {"create", "register"}, game : Game, code : Codes]
        /\ l.pc = "register" /\ l.code = launch[n].code /\ l.game = launch[n].game
    BY <2>1
  <2> QED
    BY <2>2 DEF Launch
<1>2. launch' = [launch EXCEPT ![n] = l]
  BY DEF CreateSession
<1> HIDE DEF l
<1>3. /\ launch' \in [Launches -> Launch]
      /\ launch'[n] = l
      /\ \A m \in Launches \ {n} : launch'[m] = launch[m]
  BY <1>1, <1>2 DEF IInv, TypeOK
<1>4. /\ l.game.code = l.code /\ l.game.host \in l.game.claimed
  BY <1>0, <1>1 DEF IInv, LaunchInv
<1>5. /\ \A m \in Launches : launch'[m].code \in Codes => launch'[m].code \in issued'
      /\ \A m \in Launches : launch'[m].pc \in {"create", "register"} =>
              /\ launch'[m].game.code = launch'[m].code
              /\ launch'[m].game.host \in launch'[m].game.claimed
      /\ games[n] = NoGame
      /\ \A w \in Workers : requests[w] \in GameRequests =>
              /\ requests[w].session \in Launches \ {n}
              /\ launch'[requests[w].session].pc = "done"
  <2>1. launch[n].pc # "done" /\ launch'[n].code \in {launch[n].code, NoLobby}
    BY <1>0, <1>1, <1>3
  <2>2. launch'[n].pc \in {"create", "register"} =>
           /\ launch'[n].game.code = launch'[n].code
           /\ launch'[n].game.host \in launch'[n].game.claimed
    BY <1>3, <1>4
  <2> QED
    BY <1>0, <1>3, <2>1, <2>2, LaunchMoves DEF registryVars
<1>6. TypeOK' /\ CodesAreIssued'
  BY <1>0, <1>3, <1>5 DEF IInv, TypeOK, CodesAreIssued, registryVars
<1>7. LaunchInv' /\ RequestInv'
  BY <1>0, <1>3, <1>5 DEF IInv, LaunchInv, RequestInv, registryVars
<1>8. GrantInv' /\ CodesAreUnique' /\ HostIsSeated'
  BY <1>0 DEF IInv, GrantInv, CodesAreUnique, HostIsSeated, registryVars
<1>9. StartingInv'
  <2>1. \A j \in Codes : Launching(j)' = Launching(j)
    BY <1>1, <1>3 DEF Launching
  <2> QED
    BY <1>0, <2>1 DEF IInv, StartingInv, registryVars
<1>10. NoSessionIsLost'
  BY <1>0, <1>1, <1>3 DEF IInv, TypeOK, NoSessionIsLost, registryVars
<1>11. HolderInv'
  BY <1>0, <1>1, <1>3, HoldersStay DEF registryVars
<1> QED
  BY <1>6, <1>7, <1>8, <1>9, <1>10, <1>11 DEF IInv

LEMMA RegisterGameInv ==
  ASSUME IInv, NEW n \in Launches, RegisterGame(n)
  PROVE  IInv'
<1> PICK k \in Codes : k = launch[n].code
  BY LaunchFields DEF RegisterGame
<1> DEFINE game == launch[n].game
<1>0. /\ launch[n].pc = "register" /\ LaunchEnds(n)
      /\ UNCHANGED <<issued, requests, granted>>
      /\ lobbies \in [Codes -> Lobby \cup {NoLobby}]
      /\ game \in Game /\ game # NoGame /\ game.code = k /\ game.host \in game.claimed
      /\ k \in issued
  BY LaunchFields, SpecialAssumption DEF RegisterGame, registryVars, IInv, TypeOK, LaunchInv, CodesAreIssued
<1>1. /\ launch' \in [Launches -> Launch]
      /\ launch'[n].pc = "done" /\ launch'[n].code = NoLobby
      /\ \A m \in Launches \ {n} : launch'[m] = launch[m]
      /\ \A j \in Codes : Launching(j)' = Launching(j) \ {n}
  BY <1>0, EndedLaunch
<1>2. /\ \A m \in Launches : launch'[m].code \in Codes => launch'[m].code \in issued'
      /\ \A m \in Launches : launch'[m].pc \in {"create", "register"} =>
              /\ launch'[m].game.code = launch'[m].code
              /\ launch'[m].game.host \in launch'[m].game.claimed
      /\ games[n] = NoGame
      /\ \A w \in Workers : requests[w] \in GameRequests =>
              /\ requests[w].session \in Launches \ {n}
              /\ launch'[requests[w].session].pc = "done"
  BY <1>0, <1>1, LaunchMoves
<1>3. \A j \in Codes \ {k} : Launching(j)' = Launching(j)
  BY <1>1 DEF Launching
<1>4. CASE lobbies[k] = NoLobby
  <2>1. running' = running \ {n} /\ UNCHANGED <<lobbies, inviteTo, games>>
    BY <1>4 DEF RegisterGame, registryVars
  <2>2. TypeOK' /\ CodesAreIssued'
    BY <1>0, <1>1, <1>2, <2>1 DEF IInv, TypeOK, CodesAreIssued
  <2>3. LaunchInv' /\ RequestInv'
    BY <1>0, <1>1, <1>2, <2>1 DEF IInv, LaunchInv, RequestInv
  <2>4. GrantInv' /\ CodesAreUnique' /\ HostIsSeated'
    BY <1>0, <2>1 DEF IInv, GrantInv, CodesAreUnique, HostIsSeated
  <2>5. StartingInv'
    BY <1>3, <1>4, <2>1 DEF IInv, StartingInv
  <2>6. NoSessionIsLost'
    BY <1>1, <2>1 DEF IInv, TypeOK, NoSessionIsLost
  <2>7. HolderInv'
    BY <1>0, <1>1, <2>1, HoldersStay
  <2> QED
    BY <2>2, <2>3, <2>4, <2>5, <2>6, <2>7 DEF IInv
<1>5. CASE lobbies[k] # NoLobby
  <2>1. /\ lobbies' = [lobbies EXCEPT ![k] = NoLobby]
        /\ inviteTo' = [inviteTo EXCEPT ![k] = n]
        /\ games' = [games EXCEPT ![n] = game]
        /\ UNCHANGED running
    BY <1>0, <1>5 DEF RegisterGame, Registered
  <2> HIDE DEF game
  <2>2. /\ lobbies'[k] = NoLobby /\ \A j \in Codes \ {k} : lobbies'[j] = lobbies[j]
        /\ inviteTo'[k] = n /\ \A j \in Codes \ {k} : inviteTo'[j] = inviteTo[j]
        /\ games'[n] = game /\ \A m \in Launches \ {n} : games'[m] = games[m]
    BY <1>0, <2>1 DEF IInv, TypeOK
  <2>3. TypeOK'
    BY <1>0, <1>1, <2>1 DEF IInv, TypeOK
  <2>4. CodesAreIssued'
    BY <1>0, <1>2, <2>2 DEF IInv, CodesAreIssued
  <2>5. LaunchInv' /\ RequestInv'
    BY <1>0, <1>1, <1>2, <2>1, <2>2 DEF IInv, LaunchInv, RequestInv
  <2>6. GrantInv'
    BY <1>0, <2>2, GrantedType DEF IInv, GrantInv
  <2>7. CodesAreUnique'
    <3>1. inviteTo[k] = NoLaunch
      BY <1>5 DEF IInv, CodesAreUnique
    <3>2. \A m \in Launches \ {n} : games[m] # NoGame => games[m].code \in Codes /\ games[m].code # k
      <4> SUFFICES ASSUME NEW m \in Launches \ {n}, games[m] # NoGame
                   PROVE  games[m].code \in Codes /\ games[m].code # k
        OBVIOUS
      <4>1. games[m].code \in Codes /\ inviteTo[games[m].code] = m
        BY DEF IInv, TypeOK, Game, CodesAreUnique
      <4>2. m # NoLaunch
        BY LobbyAssumption DEF Launches, NoLaunch
      <4> QED
        BY <3>1, <4>1, <4>2
    <3>3. \A j \in Codes \ {k} : inviteTo[j] # NoLaunch => inviteTo[j] \in Launches \ {n}
      BY <1>2 DEF IInv, TypeOK, CodesAreUnique
    <3>4. \A j \in Codes : inviteTo'[j] # NoLaunch =>
            /\ lobbies'[j] = NoLobby
            /\ games'[inviteTo'[j]] # NoGame
            /\ games'[inviteTo'[j]].code = j
      BY <1>0, <2>2, <3>3 DEF IInv, CodesAreUnique
    <3>5. \A m \in Launches : games'[m] # NoGame => inviteTo'[games'[m].code] = m
      BY <1>0, <2>2, <3>2 DEF IInv, CodesAreUnique
    <3> QED
      BY <3>4, <3>5 DEF CodesAreUnique
  <2>8. HostIsSeated'
    BY <1>0, <2>2 DEF IInv, HostIsSeated
  <2>9. StartingInv'
    BY <1>3, <2>2 DEF IInv, StartingInv
  <2>10. NoSessionIsLost'
    BY <1>0, <1>1, <2>1, <2>2 DEF IInv, TypeOK, NoSessionIsLost
  <2>11. HolderInv'
    <3>1. Holding(game.code, game, granted)
      BY <1>0 DEF game, IInv, HolderInv
    <3> QED
      BY <1>0, <1>1, <2>2, <3>1, HoldersStay
  <2> QED
    BY <2>3, <2>4, <2>5, <2>6, <2>7, <2>8, <2>9, <2>10, <2>11 DEF IInv
<1> QED
  BY <1>4, <1>5

LEMMA HostGameInv ==
  ASSUME IInv, NEW n \in Launches, HostGame(n)
  PROVE  IInv'
<1>0. /\ launch[n].pc = "none" /\ running' = running \cup {n}
      /\ UNCHANGED <<issued, lobbies, inviteTo, games, requests, granted>>
  BY DEF HostGame, SessionAbandoned, NextLaunch, registryVars
<1>1. PICK l \in Launch : /\ l.pc \in {"host", "abandoned"} /\ l.code = launch[n].code
                         /\ launch' = [launch EXCEPT ![n] = l]
  <2>1. launch[n] \in [pc : {"none", "host", "done", "abandoned"}, game : {NoGame}, code : {NoLobby}]
    BY <1>0, LaunchFields DEF Launch
  <2>2. CASE SessionAbandoned(n)
    <3> DEFINE l == [IdleLaunch EXCEPT !.pc = "abandoned"]
    <3>1. l \in Launch /\ l.pc = "abandoned" /\ l.code = launch[n].code
      BY <2>1 DEF IdleLaunch, Launch
    <3>2. launch' = [launch EXCEPT ![n] = l]
      BY <2>2 DEF SessionAbandoned
    <3> HIDE DEF l
    <3> QED
      BY <3>1, <3>2
  <2>3. CASE launch' = [launch EXCEPT ![n].pc = "host"]
    <3> DEFINE l == [launch[n] EXCEPT !.pc = "host"]
    <3>1. /\ l \in [pc : {"none", "host", "done", "abandoned"}, game : {NoGame}, code : {NoLobby}]
          /\ l.pc = "host" /\ l.code = launch[n].code
      BY <2>1
    <3>2. l \in Launch
      BY <3>1 DEF Launch
    <3>3. launch' = [launch EXCEPT ![n] = l]
      BY <2>3
    <3> HIDE DEF l
    <3> QED
      BY <3>1, <3>2, <3>3
  <2> QED
    BY <2>2, <2>3 DEF HostGame
<1>2. launch' = [launch EXCEPT ![n] = l]
  BY <1>1
<1>3. /\ launch' \in [Launches -> Launch]
      /\ launch'[n] = l
      /\ \A m \in Launches \ {n} : launch'[m] = launch[m]
  BY <1>1, <1>2 DEF IInv, TypeOK
<1>4. /\ \A m \in Launches : launch'[m].code \in Codes => launch'[m].code \in issued'
      /\ \A m \in Launches : launch'[m].pc \in {"create", "register"} =>
              /\ launch'[m].game.code = launch'[m].code
              /\ launch'[m].game.host \in launch'[m].game.claimed
      /\ games[n] = NoGame
      /\ \A w \in Workers : requests[w] \in GameRequests =>
              /\ requests[w].session \in Launches \ {n}
              /\ launch'[requests[w].session].pc = "done"
  BY <1>0, <1>1, <1>3, LaunchMoves
<1>5. TypeOK' /\ CodesAreIssued'
  BY <1>0, <1>3, <1>4 DEF IInv, TypeOK, CodesAreIssued
<1>6. LaunchInv' /\ RequestInv'
  BY <1>0, <1>3, <1>4 DEF IInv, LaunchInv, RequestInv
<1>7. GrantInv' /\ CodesAreUnique' /\ HostIsSeated'
  BY <1>0 DEF IInv, GrantInv, CodesAreUnique, HostIsSeated
<1>8. StartingInv'
  <2>1. \A j \in Codes : Launching(j)' = Launching(j)
    BY <1>1, <1>3 DEF Launching
  <2> QED
    BY <1>0, <2>1 DEF IInv, StartingInv
<1>9. NoSessionIsLost'
  BY <1>0, <1>1, <1>3 DEF IInv, TypeOK, NoSessionIsLost
<1>10. HolderInv'
  BY <1>0, <1>1, <1>3, HoldersStay
<1> QED
  BY <1>5, <1>6, <1>7, <1>8, <1>9, <1>10 DEF IInv

\* A session without a lobby that nobody could register is removed.
LEMMA HostLosesInv ==
  ASSUME IInv, NEW n \in Launches, launch[n].pc = "host", LaunchEnds(n),
         running' = running \ {n}, issued \subseteq issued', issued' \in SUBSET Codes,
         UNCHANGED <<lobbies, inviteTo, games, requests, granted>>
  PROVE  IInv'
<1>1. /\ launch' \in [Launches -> Launch]
      /\ launch'[n].pc = "done" /\ launch'[n].code = NoLobby
      /\ \A m \in Launches \ {n} : launch'[m] = launch[m]
      /\ \A j \in Codes : Launching(j)' = Launching(j) \ {n}
  BY EndedLaunch
<1>2. /\ \A m \in Launches : launch'[m].code \in Codes => launch'[m].code \in issued'
      /\ \A m \in Launches : launch'[m].pc \in {"create", "register"} =>
              /\ launch'[m].game.code = launch'[m].code
              /\ launch'[m].game.host \in launch'[m].game.claimed
      /\ games[n] = NoGame
      /\ \A w \in Workers : requests[w] \in GameRequests =>
              /\ requests[w].session \in Launches \ {n}
              /\ launch'[requests[w].session].pc = "done"
  BY <1>1, LaunchMoves
<1>3. TypeOK' /\ CodesAreIssued'
  BY <1>1, <1>2 DEF IInv, TypeOK, CodesAreIssued
<1>4. LaunchInv' /\ RequestInv'
  BY <1>1, <1>2 DEF IInv, LaunchInv, RequestInv
<1>5. GrantInv' /\ CodesAreUnique' /\ HostIsSeated'
  BY DEF IInv, GrantInv, CodesAreUnique, HostIsSeated
<1>6. StartingInv'
  <2>1. \A j \in Codes : Launching(j)' = Launching(j)
    BY <1>1, LaunchFields, SpecialAssumption DEF Launching
  <2> QED
    BY <2>1 DEF IInv, StartingInv
<1>7. NoSessionIsLost'
  BY <1>1 DEF IInv, TypeOK, NoSessionIsLost
<1>8. HolderInv'
  BY <1>1, HoldersStay
<1> QED
  BY <1>3, <1>4, <1>5, <1>6, <1>7, <1>8 DEF IInv

LEMMA HostRefusedInv ==
  ASSUME IInv, NEW n \in Launches, HostRefused(n)
  PROVE  IInv'
<1>1. issued' \in SUBSET Codes /\ issued \subseteq issued'
  BY DEF HostRefused, registryVars, IInv, TypeOK
<1> QED
  BY <1>1, HostLosesInv DEF HostRefused, registryVars

LEMMA RegisterHostedInv ==
  ASSUME IInv, NEW n \in Launches, NEW k \in Codes, NEW host \in Seats, RegisterHosted(n, k, host)
  PROVE  IInv'
<1> DEFINE game == [code |-> k, claimed |-> {host}, host |-> host, tokens |-> [s \in Seats |-> 0]]
           a0 == [code |-> k, seat |-> host, token |-> 0]
<1>0. /\ launch[n].pc = "host" /\ LaunchEnds(n)
      /\ k \notin issued /\ inviteTo[k] = NoLaunch
      /\ issued' = issued \cup {k} /\ issued' \in SUBSET Codes /\ issued \subseteq issued'
      /\ UNCHANGED <<lobbies, requests>>
  BY DEF RegisterHosted, IInv, TypeOK
<1>1. CASE running' = running \ {n} /\ UNCHANGED <<inviteTo, games, granted>>
  BY <1>0, <1>1, HostLosesInv
<1>2. CASE Registered(n, game) /\ granted' = granted \cup {a0} /\ UNCHANGED running
  <2>0. /\ lobbies[k] = NoLobby
        /\ game \in Game /\ game # NoGame /\ game.code = k /\ game.host \in game.claimed
        /\ a0 \in Access /\ a0.code = k
    <3>1. 0 \in 0..MaxToken
      BY LobbyAssumption
    <3>2. game \in Game
      BY <3>1 DEF Game
    <3>3. a0 \in Access
      BY <3>1 DEF Access
    <3> QED
      BY <1>0, <3>2, <3>3, SpecialAssumption DEF IInv, CodesAreIssued
  <2>1. /\ launch' \in [Launches -> Launch]
        /\ launch'[n].pc = "done" /\ launch'[n].code = NoLobby
        /\ \A m \in Launches \ {n} : launch'[m] = launch[m]
        /\ \A j \in Codes : Launching(j)' = Launching(j) \ {n}
    BY <1>0, EndedLaunch
  <2>2. /\ \A m \in Launches : launch'[m].code \in Codes => launch'[m].code \in issued'
        /\ \A m \in Launches : launch'[m].pc \in {"create", "register"} =>
                /\ launch'[m].game.code = launch'[m].code
                /\ launch'[m].game.host \in launch'[m].game.claimed
        /\ games[n] = NoGame
        /\ \A w \in Workers : requests[w] \in GameRequests =>
                /\ requests[w].session \in Launches \ {n}
                /\ launch'[requests[w].session].pc = "done"
    BY <1>0, <2>1, LaunchMoves
  <2>3. inviteTo' = [inviteTo EXCEPT ![k] = n] /\ games' = [games EXCEPT ![n] = game]
    BY <1>2 DEF Registered
  <2> HIDE DEF game, a0
  <2>4. /\ inviteTo'[k] = n /\ \A j \in Codes \ {k} : inviteTo'[j] = inviteTo[j]
        /\ games'[n] = game /\ \A m \in Launches \ {n} : games'[m] = games[m]
    BY <2>3 DEF IInv, TypeOK
  <2>5. TypeOK'
    BY <1>0, <1>2, <2>0, <2>1, <2>3 DEF IInv, TypeOK
  <2>6. CodesAreIssued'
    BY <1>0, <1>2, <2>0, <2>2, <2>4 DEF IInv, CodesAreIssued
  <2>7. LaunchInv' /\ RequestInv'
    BY <1>0, <1>2, <2>1, <2>2, <2>4 DEF IInv, LaunchInv, RequestInv
  <2>8. GrantInv'
    BY <1>0, <1>2, <2>0 DEF IInv, GrantInv
  <2>9. CodesAreUnique'
    <3>1. \A m \in Launches \ {n} : games[m] # NoGame => games[m].code \in Codes \ {k}
      BY <1>0 DEF IInv, TypeOK, Game, CodesAreIssued
    <3>2. \A j \in Codes \ {k} : inviteTo[j] # NoLaunch => inviteTo[j] \in Launches \ {n}
      BY <2>2 DEF IInv, TypeOK, CodesAreUnique
    <3>3. \A j \in Codes : inviteTo'[j] # NoLaunch =>
            /\ lobbies'[j] = NoLobby
            /\ games'[inviteTo'[j]] # NoGame
            /\ games'[inviteTo'[j]].code = j
      BY <1>0, <2>0, <2>4, <3>2 DEF IInv, CodesAreUnique
    <3>4. \A m \in Launches : games'[m] # NoGame => inviteTo'[games'[m].code] = m
      BY <2>0, <2>4, <3>1 DEF IInv, CodesAreUnique
    <3> QED
      BY <3>3, <3>4 DEF CodesAreUnique
  <2>10. HostIsSeated'
    BY <1>0, <2>0, <2>4 DEF IInv, HostIsSeated
  <2>11. StartingInv'
    <3>1. \A j \in Codes : Launching(j)' = Launching(j)
      BY <1>0, <2>1, LaunchFields, SpecialAssumption DEF Launching
    <3> QED
      BY <1>0, <3>1 DEF IInv, StartingInv
  <2>12. NoSessionIsLost'
    BY <1>2, <2>0, <2>1, <2>4 DEF IInv, TypeOK, NoSessionIsLost
  <2>13. HolderInv'
    <3>1. Holding(game.code, game, granted')
      BY <1>2 DEF Holding, game, a0
    <3> QED
      BY <1>0, <1>2, <2>1, <2>4, <3>1, HoldersStay
  <2> QED
    BY <2>5, <2>6, <2>7, <2>8, <2>9, <2>10, <2>11, <2>12, <2>13 DEF IInv
<1> QED
  BY <1>1, <1>2 DEF RegisterHosted

-----------------------------------------------------------------------------
(* Network games.                                                           *)

\* Games may lose their players, their sessions and themselves, while lobbies and
\* launches stay as they are.
LEMMA GameStep ==
  ASSUME IInv, UNCHANGED <<issued, lobbies, launch>>,
         inviteTo' \in [Codes -> Launches \cup {NoLaunch}],
         games' \in [Launches -> Game \cup {NoGame}],
         running' \in SUBSET Launches,
         requests' \in [Workers -> Requests],
         \A n \in Launches : games'[n] # NoGame =>
           games[n] # NoGame /\ games'[n].code = games[n].code,
         granted' \in SUBSET Access,
         granted \subseteq granted',
         \A a \in granted' \ granted : a.code \in issued /\ lobbies[a.code] = NoLobby,
         \A n \in Launches : games'[n] \in {games[n], NoGame} \/ Holding(games'[n].code, games'[n], granted'),
         RequestInv', CodesAreUnique', HostIsSeated', NoSessionIsLost'
  PROVE  IInv'
<1>1. TypeOK'
  BY DEF IInv, TypeOK, Requests
<1>2. CodesAreIssued' /\ LaunchInv'
  BY DEF IInv, CodesAreIssued, LaunchInv
<1>3. GrantInv'
  BY DEF IInv, GrantInv
<1>4. StartingInv'
  BY DEF IInv, StartingInv, Launching
<1>5. HolderInv'
  BY HoldersStay
<1> QED
  BY <1>1, <1>2, <1>3, <1>4, <1>5 DEF IInv

\* The requests after one that acts on a session that was or is registered.
LEMMA GameRequestAside ==
  ASSUME IInv, NEW w \in Workers, NEW n \in Launches, NEW s \in Seats,
         NEW op \in {"joined", "leaveGame", "close", "closed"},
         GameRequest(w, op, n, s), launch[n].pc = "done",
         op = "closed" => n \notin running', running' \subseteq running, UNCHANGED launch
  PROVE  requests' \in [Workers -> Requests] /\ RequestInv'
<1> DEFINE r == [op |-> op, session |-> n, seat |-> s]
<1>1. r \in GameRequests /\ r.session = n /\ r.op = op
  BY DEF GameRequests
<1>2. requests' = [requests EXCEPT ![w] = r]
  BY DEF GameRequest
<1> HIDE DEF r
<1>3. requests' \in [Workers -> Requests]
  BY <1>1, <1>2 DEF IInv, TypeOK, Requests
<1>4. requests'[w] = r /\ \A v \in Workers \ {w} : requests'[v] = requests[v]
  BY <1>2 DEF IInv, TypeOK
<1>5. RequestInv'
  BY <1>1, <1>4 DEF IInv, RequestInv
<1> QED
  BY <1>3, <1>5

LEMMA SessionFields ==
  ASSUME NEW w \in Workers, requests[w] \in GameRequests
  PROVE  requests[w].session \in Launches /\ requests[w].seat \in Seats
BY DEF GameRequests

\* A request is answered and the sessions that run are fewer or the same.
LEMMA AnsweredRequests ==
  ASSUME IInv, NEW w \in Workers, Answered(w), running' \subseteq running, UNCHANGED launch
  PROVE  requests' \in [Workers -> Requests] /\ RequestInv'
BY AnsweredAside, AsideRequests DEF RequestsAside

LEMMA GameOf ==
  ASSUME IInv, NEW n \in Launches, games[n] # NoGame
  PROVE  /\ games[n] \in Game /\ games[n].code \in Codes /\ games[n].code \in issued
         /\ games[n].host \in Seats /\ games[n].host \in games[n].claimed
         /\ games[n].tokens \in [Seats -> 0..MaxToken]
         /\ launch[n].pc = "done" /\ inviteTo[games[n].code] = n
         /\ lobbies[games[n].code] = NoLobby
<1>1. /\ games[n] \in Game /\ games[n].code \in Codes /\ games[n].code \in issued
      /\ games[n].host \in Seats /\ games[n].host \in games[n].claimed
      /\ games[n].tokens \in [Seats -> 0..MaxToken]
      /\ launch[n].pc = "done" /\ inviteTo[games[n].code] = n
  BY DEF IInv, TypeOK, Game, CodesAreIssued, HostIsSeated, LaunchInv, CodesAreUnique
<1>2. n # NoLaunch
  BY LobbyAssumption DEF Launches, NoLaunch
<1> QED
  BY <1>1, <1>2 DEF IInv, CodesAreUnique

\* Players come to and leave a game that keeps its host.
LEMMA PlayersChange ==
  ASSUME IInv, NEW n \in Launches, games[n] # NoGame, NEW C \in SUBSET Seats,
         games[n].host \in C, games' = [games EXCEPT ![n].claimed = C],
         granted \subseteq granted',
         \A s \in C \ games[n].claimed :
           [code |-> games[n].code, seat |-> s, token |-> games[n].tokens[s]] \in granted',
         UNCHANGED <<lobbies, inviteTo, running, launch>>
  PROVE  /\ games' \in [Launches -> Game \cup {NoGame}]
         /\ \A m \in Launches : games'[m] # NoGame =>
              games[m] # NoGame /\ games'[m].code = games[m].code
         /\ \A m \in Launches : games'[m] \in {games[m], NoGame} \/ Holding(games'[m].code, games'[m], granted')
         /\ CodesAreUnique' /\ HostIsSeated' /\ NoSessionIsLost'
<1> DEFINE g == [games[n] EXCEPT !.claimed = C]
<1>1. /\ g \in Game /\ g.code = games[n].code /\ g.host = games[n].host /\ g.claimed = C
      /\ g.tokens = games[n].tokens
  BY GameOf DEF Game
<1>2. g # NoGame
  BY <1>1, SpecialAssumption
<1>3. games' = [games EXCEPT ![n] = g]
  OBVIOUS
<1> HIDE DEF g
<1>4. games' \in [Launches -> Game \cup {NoGame}]
  BY <1>1, <1>3 DEF IInv, TypeOK
<1>5. games'[n] = g /\ \A m \in Launches \ {n} : games'[m] = games[m]
  BY <1>3 DEF IInv, TypeOK
<1>6. CodesAreUnique'
  BY <1>1, <1>2, <1>5 DEF IInv, TypeOK, CodesAreUnique
<1>7. HostIsSeated'
  BY <1>1, <1>5 DEF IInv, HostIsSeated
<1>8. NoSessionIsLost'
  BY <1>2, <1>5 DEF IInv, TypeOK, NoSessionIsLost
<1>9. Holding(g.code, g, granted')
  BY <1>1 DEF Holding, IInv, HolderInv
<1> QED
  BY <1>1, <1>4, <1>5, <1>6, <1>7, <1>8, <1>9

LEMMA JoinGameInv ==
  ASSUME IInv, NEW w \in Workers, NEW k \in Codes, NEW s \in Seats, JoinGame(w, k, s)
  PROVE  IInv'
<1> PICK n \in Launches : n = inviteTo[k]
  BY DEF JoinGame, IInv, TypeOK
<1> DEFINE C == games[n].claimed \cup {s}
           a0 == [code |-> k, seat |-> s, token |-> games[n].tokens[s]]
<1>1. /\ games[n] # NoGame /\ games[n].code = k
      /\ games' = [games EXCEPT ![n].claimed = C]
      /\ granted' = granted \cup {a0}
      /\ GameRequest(w, "joined", n, s)
      /\ UNCHANGED <<issued, lobbies, inviteTo, running, launch>>
  BY DEF JoinGame, IInv, CodesAreUnique
<1>2. C \in SUBSET Seats /\ games[n].host \in C
  BY <1>1, GameOf DEF Game
<1>3. a0 \in Access /\ a0.code \in issued /\ lobbies[a0.code] = NoLobby
  BY <1>1, GameOf DEF Access
<1>a. /\ granted \subseteq granted'
      /\ \A r \in C \ games[n].claimed :
           [code |-> games[n].code, seat |-> r, token |-> games[n].tokens[r]] \in granted'
  BY <1>1
<1> HIDE DEF C, a0
<1>4. requests' \in [Workers -> Requests] /\ RequestInv'
  BY <1>1, GameOf, GameRequestAside
<1>5. /\ games' \in [Launches -> Game \cup {NoGame}]
      /\ \A m \in Launches : games'[m] # NoGame =>
              games[m] # NoGame /\ games'[m].code = games[m].code
      /\ \A m \in Launches : games'[m] \in {games[m], NoGame} \/ Holding(games'[m].code, games'[m], granted')
      /\ CodesAreUnique' /\ HostIsSeated' /\ NoSessionIsLost'
  BY <1>1, <1>2, <1>a, PlayersChange
<1>6. /\ inviteTo' \in [Codes -> Launches \cup {NoLaunch}] /\ running' \in SUBSET Launches
      /\ granted' \in SUBSET Access
      /\ \A a \in granted' \ granted : a.code \in issued /\ lobbies[a.code] = NoLobby
  BY <1>1, <1>3 DEF IInv, TypeOK
<1> QED
  BY <1>1, <1>4, <1>5, <1>6, <1>a, GameStep

\* A game whose session does not run is forgotten with its code.
LEMMA Unregistered ==
  ASSUME IInv, NEW n \in Launches, Unregister(n), n \notin running, UNCHANGED <<lobbies, running, launch>>
  PROVE  /\ inviteTo' \in [Codes -> Launches \cup {NoLaunch}]
         /\ games' \in [Launches -> Game \cup {NoGame}]
         /\ \A m \in Launches : games'[m] # NoGame =>
              games[m] # NoGame /\ games'[m].code = games[m].code
         /\ \A m \in Launches : games'[m] \in {games[m], NoGame}
         /\ CodesAreUnique' /\ HostIsSeated' /\ NoSessionIsLost'
<1>1. CASE games[n] = NoGame
  <2>1. UNCHANGED <<games, inviteTo>>
    BY <1>1 DEF Unregister
  <2> QED
    BY <2>1 DEF IInv, TypeOK, CodesAreUnique, HostIsSeated, NoSessionIsLost
<1>2. CASE games[n] # NoGame
  <2> PICK k \in Codes : k = games[n].code
    BY <1>2, GameOf
  <2>1. /\ games' = [games EXCEPT ![n] = NoGame]
        /\ inviteTo' = [inviteTo EXCEPT ![k] = NoLaunch]
        /\ inviteTo[k] = n
    BY <1>2, GameOf DEF Unregister
  <2>2. /\ inviteTo' \in [Codes -> Launches \cup {NoLaunch}]
        /\ games' \in [Launches -> Game \cup {NoGame}]
    BY <2>1 DEF IInv, TypeOK
  <2>3. /\ inviteTo'[k] = NoLaunch /\ \A j \in Codes \ {k} : inviteTo'[j] = inviteTo[j]
        /\ games'[n] = NoGame /\ \A m \in Launches \ {n} : games'[m] = games[m]
    BY <2>1 DEF IInv, TypeOK
  <2>4. \A j \in Codes \ {k} : inviteTo[j] # NoLaunch => inviteTo[j] \in Launches \ {n}
    BY DEF IInv, TypeOK, CodesAreUnique
  <2>5. \A m \in Launches \ {n} : games[m] # NoGame => games[m].code \in Codes \ {k}
    BY <2>1, GameOf
  <2>6. \A j \in Codes : inviteTo'[j] # NoLaunch =>
          /\ lobbies'[j] = NoLobby
          /\ games'[inviteTo'[j]] # NoGame
          /\ games'[inviteTo'[j]].code = j
    BY <2>3, <2>4 DEF IInv, CodesAreUnique
  <2>7. \A m \in Launches : games'[m] # NoGame => inviteTo'[games'[m].code] = m
    BY <2>3, <2>5 DEF IInv, CodesAreUnique
  <2>8. HostIsSeated' /\ NoSessionIsLost'
    BY <2>3 DEF IInv, TypeOK, HostIsSeated, NoSessionIsLost
  <2> QED
    BY <2>2, <2>3, <2>6, <2>7, <2>8 DEF CodesAreUnique
<1> QED
  BY <1>1, <1>2

LEMMA UnregisterInv ==
  ASSUME IInv, NEW w \in Workers, NEW n \in Launches, Unregister(n), n \notin running, Answered(w),
         UNCHANGED <<issued, lobbies, running, launch, granted>>
  PROVE  IInv'
<1>1. requests' \in [Workers -> Requests] /\ RequestInv'
  BY AnsweredRequests
<1>2. running' \in SUBSET Launches /\ granted' \in SUBSET Access
  BY DEF IInv, TypeOK
<1> QED
  BY <1>1, <1>2, Unregistered, GameStep

\* Requests and sessions that run change, games do not.
LEMMA SessionStep ==
  ASSUME IInv, UNCHANGED <<registryVars, launch, granted>>,
         running' \subseteq running,
         requests' \in [Workers -> Requests] /\ RequestInv'
  PROVE  IInv'
<1>1. /\ UNCHANGED <<issued, lobbies, inviteTo, games>>
      /\ inviteTo' \in [Codes -> Launches \cup {NoLaunch}]
      /\ games' \in [Launches -> Game \cup {NoGame}]
      /\ running' \in SUBSET Launches /\ granted' \in SUBSET Access
  BY DEF registryVars, IInv, TypeOK
<1>2. CodesAreUnique' /\ HostIsSeated' /\ NoSessionIsLost'
  BY <1>1 DEF IInv, CodesAreUnique, HostIsSeated, NoSessionIsLost
<1> QED
  BY <1>1, <1>2, GameStep

LEMMA JoinedAnsweredInv ==
  ASSUME IInv, NEW w \in Workers, JoinedAnswered(w)
  PROVE  IInv'
<1> PICK n \in Launches : n = requests[w].session
  BY SessionFields DEF JoinedAnswered
<1>1. CASE n \in running
  <2>1. UNCHANGED <<registryVars, running, launch, granted>> /\ Answered(w)
    BY <1>1 DEF JoinedAnswered, registryVars
  <2> QED
    BY <2>1, AnsweredRequests, SessionStep
<1>2. CASE n \notin running
  BY <1>2, UnregisterInv DEF JoinedAnswered
<1> QED
  BY <1>1, <1>2

LEMMA RequestLeaveInv ==
  ASSUME IInv, NEW w \in Workers, NEW n \in Launches, NEW a \in granted, RequestLeave(w, n, a)
  PROVE  IInv'
<1>1. requests' \in [Workers -> Requests] /\ RequestInv'
  BY GameOf, GrantedType, GameRequestAside DEF RequestLeave, AuthenticIn
<1> QED
  BY <1>1, SessionStep DEF RequestLeave

LEMMA RequestCloseInv ==
  ASSUME IInv, NEW w \in Workers, NEW n \in Launches, NEW a \in granted, RequestClose(w, n, a)
  PROVE  IInv'
<1>1. requests' \in [Workers -> Requests] /\ RequestInv'
  BY GameOf, GrantedType, GameRequestAside DEF RequestClose, AuthenticIn
<1> QED
  BY <1>1, SessionStep DEF RequestClose

LEMMA LeaveGameInv ==
  ASSUME IInv, NEW w \in Workers, LeaveGame(w)
  PROVE  IInv'
<1> PICK n \in Launches : n = requests[w].session
  BY SessionFields DEF LeaveGame
<1> DEFINE s == requests[w].seat
<1>0. Answered(w) /\ UNCHANGED <<issued, lobbies, inviteTo, running, launch, granted>>
  BY DEF LeaveGame
<1>1. requests' \in [Workers -> Requests] /\ RequestInv'
  BY <1>0, AnsweredRequests
<1>2. CASE games[n] # NoGame /\ MayLeave(games[n], s)
  <2> DEFINE C == games[n].claimed \ {s}
  <2>1. games' = [games EXCEPT ![n].claimed = C]
    BY <1>2 DEF LeaveGame
  <2>2. C \in SUBSET Seats /\ games[n].host \in C
    BY <1>2, GameOf DEF Game, MayLeave
  <2>a. C \subseteq games[n].claimed
    OBVIOUS
  <2> HIDE DEF C
  <2>3. /\ games' \in [Launches -> Game \cup {NoGame}]
        /\ \A m \in Launches : games'[m] # NoGame =>
              games[m] # NoGame /\ games'[m].code = games[m].code
        /\ \A m \in Launches : games'[m] \in {games[m], NoGame} \/ Holding(games'[m].code, games'[m], granted')
        /\ CodesAreUnique' /\ HostIsSeated' /\ NoSessionIsLost'
    BY <1>0, <1>2, <2>1, <2>2, <2>a, PlayersChange
  <2>4. /\ inviteTo' \in [Codes -> Launches \cup {NoLaunch}] /\ running' \in SUBSET Launches
        /\ granted' \in SUBSET Access
    BY <1>0 DEF IInv, TypeOK
  <2> QED
    BY <1>0, <1>1, <2>3, <2>4, GameStep
<1>3. CASE ~(games[n] # NoGame /\ MayLeave(games[n], s))
  <2>1. UNCHANGED <<registryVars, running, launch, granted>>
    BY <1>0, <1>3 DEF LeaveGame, registryVars
  <2> QED
    BY <1>1, <2>1, SessionStep
<1> QED
  BY <1>2, <1>3

LEMMA CloseSessionInv ==
  ASSUME IInv, NEW w \in Workers, CloseSession(w)
  PROVE  IInv'
<1> PICK n \in Launches : n = requests[w].session
  BY SessionFields DEF CloseSession
<1> PICK s \in Seats : s = requests[w].seat
  BY SessionFields DEF CloseSession
<1>0. UNCHANGED <<registryVars, launch, granted>> /\ launch[n].pc = "done"
  BY DEF CloseSession, IInv, RequestInv
<1>1. CASE n \in running
  <2>1. running' = running \ {n} /\ GameRequest(w, "closed", n, s)
    BY <1>1 DEF CloseSession
  <2>2. requests' \in [Workers -> Requests] /\ RequestInv'
    BY <1>0, <2>1, GameRequestAside
  <2> QED
    BY <1>0, <2>1, <2>2, SessionStep
<1>2. CASE n \notin running
  <2>1. running' = running /\ Answered(w)
    BY <1>2 DEF CloseSession
  <2>2. requests' \in [Workers -> Requests] /\ RequestInv'
    BY <1>0, <2>1, AnsweredRequests
  <2> QED
    BY <1>0, <2>1, <2>2, SessionStep
<1> QED
  BY <1>1, <1>2

LEMMA CloseGameInv ==
  ASSUME IInv, NEW w \in Workers, CloseGame(w)
  PROVE  IInv'
<1> PICK n \in Launches : n = requests[w].session
  BY SessionFields DEF CloseGame
<1>1. n \notin running
  BY DEF CloseGame, IInv, RequestInv
<1> QED
  BY <1>1, UnregisterInv DEF CloseGame

LEMMA SessionTimesOutInv ==
  ASSUME IInv, NEW n \in Launches, SessionTimesOut(n)
  PROVE  IInv'
<1>1. requests' \in [Workers -> Requests] /\ RequestInv' /\ running' \subseteq running
  BY NoRequestChanges, AsideRequests DEF SessionTimesOut, RequestsAside
<1> QED
  BY <1>1, SessionStep DEF SessionTimesOut

-----------------------------------------------------------------------------
(* The theorems.                                                            *)

LEMMA LobbyRequestInv ==
  ASSUME IInv, LobbyRequest
  PROVE  IInv'
<1>1. ASSUME NEW k \in Codes, JoinLobby(k) \/ \E s \in Seats : CreateLobby(k, s)
      PROVE  IInv'
  BY <1>1, JoinLobbyInv, CreateLobbyInv
<1>2. ASSUME NEW a \in granted, ResumeLobby(a) PROVE IInv'
  BY <1>2, GrantedType, SeatedInv DEF ResumeLobby, Authentic
<1>3. ASSUME NEW a \in granted, PollLobby(a) PROVE IInv'
  BY <1>3, NoRequestChanges, HeardInv DEF PollLobby
<1>4. ASSUME NEW a \in granted, NEW w \in Workers, NEW op \in {"leave", "update"}, Authenticate(w, a, op)
      PROVE  IInv'
  BY <1>4, AuthenticateInv
<1>5. ASSUME NEW w \in Workers, LeaveLobby(w) \/ UpdateOwnSeat(w) \/ UpdateFreeSeat(w) \/ LobbyRefuses(w)
      PROVE  IInv'
  BY <1>5, LeaveLobbyInv, UpdateOwnSeatInv, UpdateFreeSeatInv, LobbyRefusesInv
<1> QED
  BY <1>1, <1>2, <1>3, <1>4, <1>5 DEF LobbyRequest

LEMMA NetworkGameInv ==
  ASSUME IInv, NetworkGame
  PROVE  IInv'
<1>1. ASSUME NEW w \in Workers, NEW k \in Codes, NEW s \in Seats, JoinGame(w, k, s)
      PROVE  IInv'
  BY <1>1, JoinGameInv
<1>2. ASSUME NEW w \in Workers, NEW n \in Launches, NEW a \in granted,
             RequestLeave(w, n, a) \/ RequestClose(w, n, a)
      PROVE  IInv'
  BY <1>2, RequestLeaveInv, RequestCloseInv
<1>3. ASSUME NEW w \in Workers, JoinedAnswered(w) \/ LeaveGame(w) \/ CloseSession(w) \/ CloseGame(w)
      PROVE  IInv'
  BY <1>3, JoinedAnsweredInv, LeaveGameInv, CloseSessionInv, CloseGameInv
<1> QED
  BY <1>1, <1>2, <1>3 DEF NetworkGame

LEMMA NextIInv == IInv /\ [Next]_vars => IInv'
<1> SUFFICES ASSUME IInv, [Next]_vars PROVE IInv'
  OBVIOUS
<1>1. CASE LobbyRequest
  BY <1>1, LobbyRequestInv
<1>2. CASE Cleanup
  BY <1>2, SweepInv, SilentInv DEF Cleanup
<1>3. ASSUME NEW n \in Launches, LaunchThread(n) \/ SessionTimesOut(n)
      PROVE  IInv'
  BY <1>3, CloneLobbyInv, LaunchFailsInv, CreateSessionInv, RegisterGameInv, SessionTimesOutInv DEF LaunchThread
<1>4. CASE HostedGame
  BY <1>4, HostGameInv, HostRefusedInv, RegisterHostedInv DEF HostedGame
<1>5. CASE NetworkGame
  BY <1>5, NetworkGameInv
<1>6. CASE UNCHANGED vars
  <2>1. UNCHANGED <<registryVars, running, launch, requests, granted>>
    BY <1>6 DEF vars
  <2>2. requests' \in [Workers -> Requests] /\ RequestInv' /\ running' \subseteq running
    BY <2>1, NoRequestChanges, AsideRequests DEF RequestsAside
  <2> QED
    BY <2>1, <2>2, SessionStep
<1> QED
  BY <1>1, <1>2, <1>3, <1>4, <1>5, <1>6 DEF Next

LEMMA InvariantHolds == Spec => []IInv
<1>1. Init => IInv
  BY InitIInv
<1>2. IInv /\ [Next]_vars => IInv'
  BY NextIInv
<1> QED
  BY <1>1, <1>2, PTL DEF Spec

\* Every variable of the registry, the launches and the requests keeps its type.
THEOREM TypeCorrect == Spec => []TypeOK
<1>1. IInv => TypeOK
  BY DEF IInv
<1> QED
  BY <1>1, InvariantHolds, PTL

\* An invite code names one lobby or one game, and the two maps of the registry
\* agree, whichever requests, launches and closings overlap.
THEOREM CodesStayUnique == Spec => []CodesAreUnique
<1>1. IInv => CodesAreUnique
  BY DEF IInv
<1> QED
  BY <1>1, InvariantHolds, PTL

\* The host of every lobby and of every game has a seat in it.
THEOREM HostsAreSeated == Spec => []HostIsSeated
<1>1. IInv => HostIsSeated
  BY DEF IInv
<1> QED
  BY <1>1, InvariantHolds, PTL

\* A session that runs for a network game is registered, about to be, or one whose
\* id create kept to itself: nothing else loses a session, whatever closes or is
\* swept while it is launched.
THEOREM SessionsAreReachable == Spec => []NoSessionIsLost
<1>1. IInv => NoSessionIsLost
  BY DEF IInv
<1> QED
  BY <1>1, InvariantHolds, PTL

\* A lobby is starting exactly while one thread launches it.
THEOREM OneLaunchPerStart == Spec => []StartingIsLaunching
<1>1. IInv => StartingIsLaunching
  <2> SUFFICES ASSUME IInv, NEW k \in Codes, lobbies[k] # NoLobby
               PROVE  Cardinality(Launching(k)) = IF lobbies[k].status = "starting" THEN 1 ELSE 0
    BY DEF StartingIsLaunching
  <2>1. \A n : Cardinality({n}) = 1
    BY FS_Singleton
  <2>2. Cardinality({}) = 0
    BY FS_EmptySet
  <2> QED
    BY <2>1, <2>2 DEF IInv, StartingInv
<1> QED
  BY <1>1, InvariantHolds, PTL

\* The token a lobby accepts for a seat is with somebody exactly when the seat is
\* taken, and every player of a game was given the token it accepts.
THEOREM SeatsHaveHolders == Spec => []TakenSeatsHaveHolders
<1>1. IInv => TakenSeatsHaveHolders
  <2> SUFFICES ASSUME IInv PROVE TakenSeatsHaveHolders
    OBVIOUS
  <2>1. ASSUME NEW k \in Codes, NEW s \in Seats, lobbies[k] # NoLobby
        PROVE  s \in lobbies[k].claimed <=> GivenOut(k, s, lobbies[k].tokens[s])
    <3>1. s \in lobbies[k].claimed => GivenOut(k, s, lobbies[k].tokens[s])
      BY <2>1 DEF IInv, HolderInv, Holding, GivenOut
    <3>2. ASSUME s \notin lobbies[k].claimed, GivenOut(k, s, lobbies[k].tokens[s]) PROVE FALSE
      <4>1. lobbies[k].tokens[s] < lobbies[k].tokens[s]
        BY <2>1, <3>2 DEF IInv, GrantInv, GivenOut
      <4>2. lobbies[k].tokens[s] \in Nat
        BY <2>1, LobbyOf, LobbyFields, LobbyAssumption
      <4> QED
        BY <4>1, <4>2
    <3> QED
      BY <3>1, <3>2
  <2>2. ASSUME NEW n \in Launches, games[n] # NoGame, NEW s \in games[n].claimed
        PROVE  GivenOut(games[n].code, s, games[n].tokens[s])
    BY <2>2 DEF IInv, HolderInv, Holding, GivenOut
  <2> QED
    BY <2>1, <2>2 DEF TakenSeatsHaveHolders
<1> QED
  BY <1>1, InvariantHolds, PTL

-----------------------------------------------------------------------------
(* The registry implements Invitations.                                     *)

\* Codes whose tables stay as they are, all but one.
LEMMA TableBecomes ==
  ASSUME NEW k \in Codes, \A j \in Codes \ {k} : Table(j)' = Table(j)
  PROVE  Tables' = [Tables EXCEPT ![k] = Table(k)']
BY DEF Tables

LEMMA TableOf == \A k \in Codes : Tables[k] = Table(k)
BY DEF Tables

\* The fields of tables.
LEMMA TableFields ==
  /\ \A l : /\ LobbyTable(l).players = l.claimed /\ LobbyTable(l).host = l.host
            /\ LobbyTable(l).life \in {"open", "starting"}
            /\ LobbyTable(l).life = "starting" <=> l.status = "starting"
  /\ \A n : /\ GameTable(n).players = games[n].claimed /\ GameTable(n).host = games[n].host
            /\ GameTable(n).life = "game"
  /\ \A k : k \notin issued => NoTable(k).life = "unissued"
BY DEF LobbyTable, GameTable, NoTable

\* Nothing a player sees changes.
LEMMA NothingSeen ==
  ASSUME \A j \in Codes : Table(j)' = Table(j), Used \subseteq Used'
  PROVE  Invitation!Next
<1>1. Tables' = Tables
  BY DEF Tables
<1> QED
  BY <1>1 DEF Invitation!Next

\* A launch that has not ended moves on.
LEMMA UsedBy ==
  ASSUME IInv, NEW n \in Launches, launch[n].pc \notin {"done", "abandoned"}, NEW l,
         launch' = [launch EXCEPT ![n] = l]
  PROVE  Used \subseteq Used' /\ (l.pc = "done" => n \in Used' \ Used)
<1>1. launch'[n] = l /\ \A m \in Launches \ {n} : launch'[m] = launch[m]
  BY DEF IInv, TypeOK
<1> QED
  BY <1>1 DEF Used

LEMMA UsedByEnd ==
  ASSUME IInv, NEW n \in Launches, launch[n].pc \notin {"done", "abandoned"}, LaunchEnds(n)
  PROVE  Used \subseteq Used' /\ n \in Used' \ Used
<1>1. [IdleLaunch EXCEPT !.pc = "done"].pc = "done"
  BY DEF IdleLaunch
<1> QED
  BY <1>1, UsedBy DEF LaunchEnds

LEMMA UsedAlready == UNCHANGED launch => Used \subseteq Used'
BY DEF Used

\* One lobby becomes another one.
LEMMA LobbyEdited ==
  ASSUME IInv, NEW k \in Codes, lobbies[k] # NoLobby, NEW new, new # NoLobby,
         lobbies' = [lobbies EXCEPT ![k] = new], UNCHANGED <<issued, inviteTo, games>>
  PROVE  /\ Tables[k] = LobbyTable(lobbies[k])
         /\ Tables' = [Tables EXCEPT ![k] = LobbyTable(new)]
<1>1. lobbies'[k] = new /\ \A j \in Codes \ {k} : lobbies'[j] = lobbies[j]
  BY DEF IInv, TypeOK
<1>2. \A j \in Codes \ {k} : Table(j)' = Table(j)
  BY <1>1 DEF Table, LobbyTable, GameTable, NoTable
<1>3. Table(k)' = LobbyTable(new)
  BY <1>1 DEF Table, LobbyTable
<1> QED
  BY <1>2, <1>3, TableBecomes, TableOf DEF Table

\* What a player sees of one lobby stays as it is.
LEMMA LobbyUnseen ==
  ASSUME IInv, NEW k \in Codes, lobbies[k] # NoLobby, NEW new, new # NoLobby,
         lobbies' = [lobbies EXCEPT ![k] = new], UNCHANGED <<issued, inviteTo, games>>,
         LobbyTable(new) = LobbyTable(lobbies[k]), Used \subseteq Used'
  PROVE  Invitation!Next
<1>1. Tables' = [Tables EXCEPT ![k] = Tables[k]]
  BY LobbyEdited
<1>2. Tables' = Tables
  BY <1>1 DEF Tables
<1> QED
  BY <1>2 DEF Invitation!Next

LEMMA LobbiesClosed ==
  ASSUME IInv, NEW C \in SUBSET Codes, \A k \in C : lobbies[k] # NoLobby,
         lobbies' = [k \in Codes |-> IF k \in C THEN NoLobby ELSE lobbies[k]],
         UNCHANGED <<issued, inviteTo, games, launch>>
  PROVE  Invitation!Next
<1>1. \A k \in C : Table(k)' = Invitation!Vacant("closed")
  BY DEF Table, NoTable, Invitation!Vacant, IInv, CodesAreUnique, CodesAreIssued
<1>2. \A k \in Codes \ C : Table(k)' = Table(k)
  BY DEF Table, LobbyTable, GameTable, NoTable
<1>3. \A k \in C : Invitation!Held(k)
  <2>1. \A k \in C : Tables[k] = LobbyTable(lobbies[k])
    BY TableOf DEF Table
  <2> QED
    BY <2>1, TableFields DEF Invitation!Held
<1>4. Tables' = [k \in Codes |-> IF k \in C THEN Invitation!Vacant("closed") ELSE Tables[k]]
  BY <1>1, <1>2 DEF Tables
<1>5. Invitation!Close(C)
  BY <1>3, <1>4 DEF Invitation!Close
<1> QED
  BY <1>5, UsedAlready DEF Invitation!Next

LEMMA CreateLobbyStep ==
  ASSUME IInv, NEW k \in Codes, NEW s \in Seats, CreateLobby(k, s)
  PROVE  Invitation!Next
<1> PICK decks \in SUBSET Seats :
      lobbies' = [lobbies EXCEPT ![k] =
        [claimed |-> {s}, host |-> s, ready |-> {}, chosen |-> decks,
         tokens |-> [r \in Seats |-> 0], fresh |-> {s}, status |-> "waiting"]]
  BY DEF CreateLobby
<1> DEFINE new == [claimed |-> {s}, host |-> s, ready |-> {}, chosen |-> decks,
                   tokens |-> [r \in Seats |-> 0], fresh |-> {s}, status |-> "waiting"]
<1>1. /\ lobbies' = [lobbies EXCEPT ![k] = new] /\ issued' = issued \cup {k}
      /\ UNCHANGED <<inviteTo, games, launch>>
      /\ lobbies[k] = NoLobby /\ inviteTo[k] = NoLaunch /\ k \notin issued
  BY DEF CreateLobby, FreeCode, UnusedCode
<1>2. new # NoLobby
  <2>1. 0 \in 0..MaxToken
    BY LobbyAssumption
  <2>2. new \in Lobby
    BY <2>1 DEF Lobby
  <2> QED
    BY <2>2, SpecialAssumption
<1>3. LobbyTable(new) = [life |-> "open", players |-> {s}, host |-> s, session |-> NoLaunch]
  BY DEF LobbyTable
<1> HIDE DEF new
<1>4. lobbies'[k] = new /\ \A j \in Codes \ {k} : lobbies'[j] = lobbies[j]
  BY <1>1 DEF IInv, TypeOK
<1>5. \A j \in Codes \ {k} : Table(j)' = Table(j)
  BY <1>1, <1>4 DEF Table, LobbyTable, GameTable, NoTable
<1>6. Table(k)' = LobbyTable(new)
  BY <1>2, <1>4 DEF Table, LobbyTable
<1>7. Tables[k].life = "unissued"
  <2>1. Tables[k] = NoTable(k)
    BY <1>1, TableOf DEF Table
  <2> QED
    BY <1>1, <2>1, TableFields
<1>8. Invitation!Open(k, s)
  BY <1>3, <1>5, <1>6, <1>7, TableBecomes DEF Invitation!Open, Invitation!Becomes
<1> QED
  BY <1>1, <1>8, UsedAlready DEF Invitation!Next

LEMMA SeatedStep ==
  ASSUME IInv, NEW k \in Codes, lobbies[k] # NoLobby, NEW s \in Seats, Seated(k, s)
  PROVE  Invitation!Next
<1> DEFINE old == lobbies[k]
           new == [old EXCEPT !.claimed = @ \cup {s}, !.fresh = @ \cup {s}, !.ready = @ \ {s}]
<1>0. old \in Lobby
  BY LobbyOf
<1>1. lobbies' = [lobbies EXCEPT ![k] = new] /\ UNCHANGED <<issued, inviteTo, games, launch>>
  BY DEF Seated
<1>2. new # NoLobby
  <2>1. new \in Lobby
    BY <1>0, LobbyFields DEF Lobby
  <2> QED
    BY <2>1, SpecialAssumption
<1>3. LobbyTable(new) = [LobbyTable(old) EXCEPT !.players = @ \cup {s}]
  <2>1. new.claimed = old.claimed \cup {s} /\ new.host = old.host /\ new.status = old.status
    BY <1>0 DEF Lobby
  <2> HIDE DEF new
  <2> QED
    BY <2>1 DEF LobbyTable
<1> HIDE DEF new
<1>4. Tables[k] = LobbyTable(old) /\ Tables' = [Tables EXCEPT ![k] = LobbyTable(new)]
  BY <1>1, <1>2, LobbyEdited
<1>5. Invitation!Held(k)
  BY <1>4, TableFields DEF Invitation!Held
<1>6. Invitation!Join(k, s)
  BY <1>3, <1>4, <1>5 DEF Invitation!Join, Invitation!Becomes
<1> QED
  BY <1>1, <1>6, UsedAlready DEF Invitation!Next

LEMMA SameTable ==
  ASSUME NEW old, NEW new, new.claimed = old.claimed, new.host = old.host,
         new.status = "starting" <=> old.status = "starting"
  PROVE  LobbyTable(new) = LobbyTable(old)
BY DEF LobbyTable

\* A player is heard of, or not any more.
LEMMA FreshUnseen ==
  ASSUME IInv, NEW k \in Codes, lobbies[k] # NoLobby, NEW F \in SUBSET Seats,
         lobbies' = [lobbies EXCEPT ![k] = [@ EXCEPT !.fresh = F]],
         UNCHANGED <<issued, inviteTo, games, launch>>
  PROVE  Invitation!Next
<1> DEFINE new == [lobbies[k] EXCEPT !.fresh = F]
<1>1. lobbies' = [lobbies EXCEPT ![k] = new]
  OBVIOUS
<1>2. new \in Lobby /\ LobbyTable(new) = LobbyTable(lobbies[k])
  <2>1. new \in Lobby /\ new.claimed = lobbies[k].claimed /\ new.host = lobbies[k].host /\ new.status = lobbies[k].status
    BY LobbyOf DEF Lobby
  <2> HIDE DEF new
  <2> QED
    BY <2>1, SameTable
<1> HIDE DEF new
<1>3. new # NoLobby
  BY <1>2, SpecialAssumption
<1> QED
  BY <1>1, <1>2, <1>3, UsedAlready, LobbyUnseen

LEMMA LeaveLobbyStep ==
  ASSUME IInv, NEW w \in Workers, LeaveLobby(w)
  PROVE  Invitation!Next
<1> PICK k \in Codes : k = requests[w].code
  BY RequestType DEF LeaveLobby
<1> PICK s \in Seats : s = requests[w].seat
  BY RequestType DEF LeaveLobby
<1> DEFINE old == lobbies[k]
           left == Vacated(old, s)
           new == Hosted(left, s)
<1>0. /\ old # NoLobby /\ old \in Lobby /\ old.host \in old.claimed
      /\ lobbies' = [lobbies EXCEPT ![k] = IF left.claimed = {} THEN NoLobby ELSE new]
      /\ UNCHANGED <<issued, inviteTo, games, launch>>
      /\ old.tokens[s] < MaxToken
  BY LobbyOf DEF LeaveLobby
<1>1. /\ left.claimed = old.claimed \ {s} /\ left.claimed \in SUBSET Seats
      /\ left.host = old.host /\ left.status = old.status
      /\ left = [old EXCEPT !.claimed = @ \ {s}, !.fresh = @ \ {s}, !.ready = @ \ {s},
                            !.chosen = @ \ {s}, !.tokens[s] = @ + 1]
  BY <1>0 DEF Lobby, Vacated
<1>2. CASE left.claimed = {}
  <2>1. lobbies' = [j \in Codes |-> IF j \in {k} THEN NoLobby ELSE lobbies[j]]
    BY <1>0, <1>2 DEF IInv, TypeOK
  <2> QED
    BY <1>0, <2>1, LobbiesClosed, ZenonT(40)
<1>3. CASE left.claimed # {}
  <2>0. Min(left.claimed) \in left.claimed
    BY <1>1, <1>3, FirstSeat
  <2>1. new.claimed = left.claimed /\ new.status = old.status /\ new.host = IF old.host = s THEN Min(left.claimed) ELSE old.host
    <3>1. CASE old.host = s
      <4>1. new = [left EXCEPT !.host = Min(left.claimed)]
        BY <1>1, <3>1 DEF Hosted
      <4> QED
        BY <1>0, <1>1, <3>1, <4>1 DEF Lobby
    <3>2. CASE old.host # s
      BY <1>1, <3>2 DEF Hosted
    <3> QED
      BY <3>1, <3>2
  <2>2. new # NoLobby
    <3>1. new \in Lobby
      BY <1>0, <1>3, LeftIsLobby
    <3> QED
      BY <3>1, SpecialAssumption
  <2>3. lobbies' = [lobbies EXCEPT ![k] = new]
    BY <1>0, <1>3
  <2> HIDE DEF new, left
  <2>4. Tables[k] = LobbyTable(old) /\ Tables' = [Tables EXCEPT ![k] = LobbyTable(new)]
    BY <1>0, <2>2, <2>3, LobbyEdited
  <2>5. LobbyTable(new) = [life |-> LobbyTable(old).life, players |-> LobbyTable(old).players \ {s},
                           host |-> new.host, session |-> LobbyTable(old).session]
    <3>1. new.claimed = old.claimed \ {s} /\ new.status = old.status
      BY <1>1, <2>1
    <3> QED
      BY <3>1 DEF LobbyTable
  <2>6. new.host \in Seats /\ new.host \in old.claimed \ {s} /\ (new.host = old.host \/ s = old.host)
    BY <1>0, <1>1, <2>0, <2>1
  <2>7. Invitation!Leave(k, s, new.host)
    BY <2>4, <2>5, <2>6, TableFields DEF Invitation!Leave, Invitation!Held, Invitation!Becomes
  <2> QED
    BY <1>0, <2>6, <2>7, UsedAlready DEF Invitation!Next
<1> QED
  BY <1>2, <1>3

\* A lobby that changed what it shows to no player, or starts.
LEMMA UpdatedStep ==
  ASSUME IInv, NEW k \in Codes, lobbies[k] # NoLobby, Open(lobbies[k]),
         NEW new, SameSeats(lobbies[k], new), Updated(k, new),
         UNCHANGED <<issued, inviteTo, games>>
  PROVE  Invitation!Next
<1> DEFINE old == lobbies[k]
<1>0. old \in Lobby /\ old.status # "starting"
  BY LobbyOf DEF Open
<1>1. CASE ~CanStart(new)
  <2> DEFINE waiting == [new EXCEPT !.status = "waiting"]
  <2>1. lobbies' = [lobbies EXCEPT ![k] = waiting] /\ UNCHANGED launch
    BY <1>1 DEF Updated
  <2>2. /\ waiting \in Lobby
        /\ waiting.claimed = old.claimed /\ waiting.host = old.host /\ waiting.status = "waiting"
    BY DEF SameSeats, Lobby
  <2> HIDE DEF waiting
  <2>3. waiting # NoLobby /\ LobbyTable(waiting) = LobbyTable(old)
    BY <1>0, <2>2, SameTable, SpecialAssumption
  <2> QED
    BY <2>1, <2>3, LobbyUnseen, UsedAlready
<1>2. CASE CanStart(new)
  <2> DEFINE starting == [new EXCEPT !.status = "starting"]
  <2>1. lobbies' = [lobbies EXCEPT ![k] = starting]
    BY <1>2 DEF Updated
  <2>2. /\ starting \in Lobby
        /\ starting.claimed = old.claimed /\ starting.host = old.host /\ starting.status = "starting"
        /\ old.claimed = Seats
    BY <1>2 DEF SameSeats, Lobby, CanStart
  <2>3. Used \subseteq Used'
    <3>1. PICK n \in Launches : NextLaunch(n) /\ launch' = [launch EXCEPT ![n].pc = "clone", ![n].code = k]
      BY <1>2 DEF Updated
    <3>2. launch' = [launch EXCEPT ![n] = [launch[n] EXCEPT !.pc = "clone", !.code = k]]
      BY <3>1
    <3> QED
      BY <3>1, <3>2, UsedBy DEF NextLaunch
  <2> HIDE DEF starting
  <2>4. starting # NoLobby
    BY <2>2, SpecialAssumption
  <2>5. Tables[k] = LobbyTable(old) /\ Tables' = [Tables EXCEPT ![k] = LobbyTable(starting)]
    BY <2>1, <2>4, LobbyEdited
  <2>6. LobbyTable(starting) = [LobbyTable(old) EXCEPT !.life = "starting"]
    BY <2>2 DEF LobbyTable
  <2>7. Invitation!Start(k)
    BY <1>0, <2>2, <2>5, <2>6, TableFields DEF Invitation!Start, Invitation!Becomes
  <2> QED
    BY <2>3, <2>7 DEF Invitation!Next
<1> QED
  BY <1>1, <1>2

LEMMA UpdateOwnSeatStep ==
  ASSUME IInv, NEW w \in Workers, UpdateOwnSeat(w)
  PROVE  Invitation!Next
<1> PICK k \in Codes : k = requests[w].code
  BY RequestType DEF UpdateOwnSeat
<1> PICK s \in Seats : s = requests[w].seat
  BY RequestType DEF UpdateOwnSeat
<1> DEFINE old == lobbies[k]
<1>0. /\ old # NoLobby /\ Open(old) /\ old \in Lobby
      /\ UNCHANGED <<issued, inviteTo, games>>
  BY LobbyOf DEF UpdateOwnSeat
<1>1. PICK deck \in {"same", "chosen", "random"}, ready \in {"same", "yes", "no"}, renamed \in BOOLEAN :
        LET edited == ReadySet(DeckSet(old, s, deck), s, IF renamed THEN "no" ELSE "same")
        IN IF ready = "yes" /\ s \notin edited.chosen
           THEN lobbies' = [lobbies EXCEPT ![k] = edited] /\ UNCHANGED launch
           ELSE Updated(k, ReadySet(edited, s, ready))
  BY DEF UpdateOwnSeat
<1> DEFINE decked == DeckSet(old, s, deck)
           edited == ReadySet(decked, s, IF renamed THEN "no" ELSE "same")
           new == ReadySet(edited, s, ready)
<1>2. SameSeats(old, edited)
  <2>1. SameSeats(old, decked)
    BY <1>0, DeckAndReadySeats
  <2> HIDE DEF decked
  <2>2. SameSeats(decked, edited)
    BY <2>1, DeckAndReadySeats DEF SameSeats
  <2> QED
    BY <2>1, <2>2 DEF SameSeats
<1>3. SameSeats(old, new)
  <2> HIDE DEF edited
  <2>1. SameSeats(edited, new)
    BY <1>2, DeckAndReadySeats DEF SameSeats
  <2> QED
    BY <1>2, <2>1 DEF SameSeats
<1>4. CASE ready = "yes" /\ s \notin edited.chosen
  <2>1. lobbies' = [lobbies EXCEPT ![k] = edited] /\ UNCHANGED launch
    BY <1>1, <1>4
  <2> HIDE DEF edited
  <2>2. edited # NoLobby /\ LobbyTable(edited) = LobbyTable(old)
    BY <1>2, SameTable, SpecialAssumption DEF SameSeats
  <2> QED
    BY <1>0, <2>1, <2>2, LobbyUnseen, UsedAlready
<1>5. CASE ~(ready = "yes" /\ s \notin edited.chosen)
  <2>1. Updated(k, new)
    BY <1>1, <1>5
  <2> HIDE DEF new
  <2> QED
    BY <1>0, <1>3, <2>1, UpdatedStep
<1> QED
  BY <1>4, <1>5

LEMMA UpdateFreeSeatStep ==
  ASSUME IInv, NEW w \in Workers, UpdateFreeSeat(w)
  PROVE  Invitation!Next
<1> PICK k \in Codes : k = requests[w].code
  BY RequestType DEF UpdateFreeSeat
<1> DEFINE old == lobbies[k]
<1>0. /\ old # NoLobby /\ Open(old) /\ old \in Lobby
      /\ UNCHANGED <<issued, inviteTo, games>>
  BY LobbyOf DEF UpdateFreeSeat
<1>1. CASE Updated(k, old)
  BY <1>0, <1>1, UpdatedStep DEF SameSeats
<1>2. ASSUME NEW s \in Seats, NEW deck \in {"chosen", "random"}, Updated(k, DeckSet(old, s, deck))
      PROVE  Invitation!Next
  BY <1>0, <1>2, DeckAndReadySeats, UpdatedStep
<1> QED
  BY <1>1, <1>2 DEF UpdateFreeSeat

LEMMA RegistryUnseen ==
  ASSUME UNCHANGED registryVars, Used \subseteq Used'
  PROVE  Invitation!Next
<1>1. \A j \in Codes : Table(j)' = Table(j)
  BY DEF registryVars, Table, LobbyTable, GameTable, NoTable
<1> QED
  BY <1>1, NothingSeen

LEMMA CloneLobbyStep ==
  ASSUME IInv, NEW n \in Launches, CloneLobby(n)
  PROVE  Invitation!Next
<1>1. launch[n].pc \notin {"done", "abandoned"} /\ UNCHANGED registryVars
  BY DEF CloneLobby
<1>2. CASE lobbies[launch[n].code] = NoLobby
  BY <1>1, <1>2, UsedByEnd, RegistryUnseen DEF CloneLobby
<1>3. CASE lobbies[launch[n].code] # NoLobby
  <2> DEFINE game == [code |-> launch[n].code, claimed |-> lobbies[launch[n].code].claimed,
                      host |-> lobbies[launch[n].code].host, tokens |-> lobbies[launch[n].code].tokens]
  <2>1. launch' = [launch EXCEPT ![n] = [launch[n] EXCEPT !.pc = "create", !.game = game]]
    BY <1>3 DEF CloneLobby
  <2> QED
    BY <1>1, <2>1, UsedBy, RegistryUnseen
<1> QED
  BY <1>2, <1>3

LEMMA CreateSessionStep ==
  ASSUME IInv, NEW n \in Launches, CreateSession(n)
  PROVE  Invitation!Next
<1>1. launch[n].pc \notin {"done", "abandoned"} /\ UNCHANGED registryVars
  BY DEF CreateSession
<1>2. launch' = [launch EXCEPT ![n] = [launch[n] EXCEPT !.pc = "register"]]
  BY DEF CreateSession
<1> QED
  BY <1>1, <1>2, UsedBy, RegistryUnseen

\* The lobby of a launch that goes on is starting.
LEMMA LaunchedIsStarting ==
  ASSUME IInv, NEW n \in Launches, NEW k \in Codes, launch[n].code = k, lobbies[k] # NoLobby
  PROVE  lobbies[k].status = "starting" /\ lobbies[k] \in Lobby
<1>1. n \in Launching(k)
  BY DEF Launching
<1> QED
  BY <1>1, LobbyOf DEF IInv, StartingInv

LEMMA LaunchFailsStep ==
  ASSUME IInv, NEW n \in Launches, LaunchFails(n)
  PROVE  Invitation!Next
<1> PICK k \in Codes : k = launch[n].code
  BY LaunchFields DEF LaunchFails
<1>0. Used \subseteq Used' /\ UNCHANGED <<issued, inviteTo, games>>
  BY UsedByEnd, UsedBy DEF LaunchFails, SessionAbandoned
<1>1. CASE lobbies[k] = NoLobby
  <2>1. lobbies' = lobbies
    BY <1>1 DEF LaunchFails, FailLobby, IInv, TypeOK
  <2> QED
    BY <1>0, <2>1, RegistryUnseen DEF registryVars
<1>2. CASE lobbies[k] # NoLobby
  <2> DEFINE old == lobbies[k]
             new == [old EXCEPT !.status = "failed", !.ready = {}]
  <2>1. lobbies' = [lobbies EXCEPT ![k] = new]
    BY <1>2 DEF LaunchFails, FailLobby
  <2>2. old.status = "starting" /\ old \in Lobby
    BY <1>2, LaunchedIsStarting
  <2>3. new \in Lobby /\ new.claimed = old.claimed /\ new.host = old.host /\ new.status = "failed"
    BY <2>2 DEF Lobby
  <2> HIDE DEF new
  <2>4. new # NoLobby
    BY <2>3, SpecialAssumption
  <2>5. Tables[k] = LobbyTable(old) /\ Tables' = [Tables EXCEPT ![k] = LobbyTable(new)]
    BY <1>0, <1>2, <2>1, <2>4, LobbyEdited
  <2>6. LobbyTable(new) = [LobbyTable(old) EXCEPT !.life = "open"]
    BY <2>3 DEF LobbyTable
  <2>7. Invitation!Fail(k)
    BY <2>2, <2>5, <2>6, TableFields DEF Invitation!Fail, Invitation!Becomes
  <2> QED
    BY <1>0, <2>7 DEF Invitation!Next
<1> QED
  BY <1>1, <1>2

\* A code gets a game.
LEMMA CodeGetsGame ==
  ASSUME IInv, NEW k \in Codes, NEW n \in Launches, NEW game, launch[n].pc # "done",
         Registered(n, game), game.code = k, lobbies'[k] = NoLobby,
         \A j \in Codes \ {k} : lobbies'[j] = lobbies[j] /\ (j \in issued' <=> j \in issued)
  PROVE  Tables' = [Tables EXCEPT ![k] =
           [life |-> "game", players |-> game.claimed, host |-> game.host, session |-> n]]
<1>1. /\ inviteTo'[k] = n /\ \A j \in Codes \ {k} : inviteTo'[j] = inviteTo[j]
      /\ games'[n] = game /\ \A m \in Launches \ {n} : games'[m] = games[m]
  BY DEF IInv, TypeOK, Registered
<1>2. n # NoLaunch
  BY LobbyAssumption DEF Launches, NoLaunch
<1>3. \A j \in Codes : inviteTo[j] # NoLaunch => inviteTo[j] \in Launches \ {n}
  BY DEF IInv, TypeOK, CodesAreUnique, LaunchInv
<1>4. \A j \in Codes \ {k} : Table(j)' = Table(j)
  <2> SUFFICES ASSUME NEW j \in Codes \ {k} PROVE Table(j)' = Table(j)
    OBVIOUS
  <2>1. NoTable(j)' = NoTable(j)
    BY DEF NoTable
  <2>2. inviteTo[j] # NoLaunch => GameTable(inviteTo[j])' = GameTable(inviteTo[j])
    BY <1>1, <1>3 DEF GameTable
  <2>3. lobbies'[j] = lobbies[j] /\ LobbyTable(lobbies[j])' = LobbyTable(lobbies[j])
    BY DEF LobbyTable
  <2> QED
    BY <1>1, <2>1, <2>2, <2>3 DEF Table
<1>5. Table(k)' = [life |-> "game", players |-> game.claimed, host |-> game.host, session |-> n]
  BY <1>1, <1>2 DEF Table, GameTable
<1> QED
  BY <1>4, <1>5, TableBecomes

LEMMA RegisterGameStep ==
  ASSUME IInv, NEW n \in Launches, RegisterGame(n)
  PROVE  Invitation!Next
<1> PICK k \in Codes : k = launch[n].code
  BY LaunchFields DEF RegisterGame
<1> DEFINE game == launch[n].game
<1>0. /\ Used \subseteq Used' /\ n \in Used' \ Used
      /\ launch[n].pc # "done"
      /\ game \in Game /\ game.code = k /\ game.host \in game.claimed
  BY UsedByEnd, LaunchFields DEF RegisterGame, IInv, LaunchInv
<1>1. CASE lobbies[k] = NoLobby
  BY <1>0, <1>1, RegistryUnseen DEF RegisterGame
<1>2. CASE lobbies[k] # NoLobby
  <2>1. lobbies' = [lobbies EXCEPT ![k] = NoLobby] /\ Registered(n, game) /\ UNCHANGED issued
    BY <1>2 DEF RegisterGame
  <2>2. lobbies'[k] = NoLobby /\ \A j \in Codes \ {k} : lobbies'[j] = lobbies[j]
    BY <2>1 DEF IInv, TypeOK
  <2>3. game.claimed \in SUBSET Seats /\ game.host \in Seats
    BY <1>0 DEF Game
  <2> HIDE DEF game
  <2>4. Tables' = [Tables EXCEPT ![k] =
          [life |-> "game", players |-> game.claimed, host |-> game.host, session |-> n]]
    BY <1>0, <2>1, <2>2, CodeGetsGame
  <2>5. Tables[k].life = "starting"
    <3>1. Tables[k] = LobbyTable(lobbies[k])
      BY <1>2, TableOf DEF Table
    <3> QED
      BY <1>2, <3>1, LaunchedIsStarting, TableFields
  <2>6. Invitation!Play(k, n, game.claimed, game.host)
    BY <1>0, <2>4, <2>5 DEF Invitation!Play, Invitation!Unused, Invitation!Becomes
  <2> QED
    BY <1>0, <2>3, <2>6 DEF Invitation!Next
<1> QED
  BY <1>1, <1>2

LEMMA HostGameStep ==
  ASSUME IInv, NEW n \in Launches, HostGame(n)
  PROVE  Invitation!Next
<1>1. launch[n].pc \notin {"done", "abandoned"} /\ UNCHANGED registryVars
  BY DEF HostGame, NextLaunch
<1>2. CASE launch' = [launch EXCEPT ![n].pc = "host"]
  <2>1. launch' = [launch EXCEPT ![n] = [launch[n] EXCEPT !.pc = "host"]]
    BY <1>2
  <2> QED
    BY <1>1, <2>1, UsedBy, RegistryUnseen
<1>3. CASE SessionAbandoned(n)
  BY <1>1, <1>3, UsedBy, RegistryUnseen DEF SessionAbandoned
<1> QED
  BY <1>2, <1>3 DEF HostGame

LEMMA HostRefusedStep ==
  ASSUME IInv, NEW n \in Launches, HostRefused(n)
  PROVE  Invitation!Next
BY UsedByEnd, RegistryUnseen DEF HostRefused

LEMMA RegisterHostedStep ==
  ASSUME IInv, NEW n \in Launches, NEW k \in Codes, NEW s \in Seats, RegisterHosted(n, k, s)
  PROVE  Invitation!Next
<1> DEFINE game == [code |-> k, claimed |-> {s}, host |-> s, tokens |-> [r \in Seats |-> 0]]
<1>0. /\ Used \subseteq Used' /\ n \in Used' \ Used /\ launch[n].pc # "done"
      /\ k \notin issued /\ inviteTo[k] = NoLaunch /\ lobbies[k] = NoLobby
      /\ issued' = issued \cup {k} /\ lobbies' = lobbies
  BY UsedByEnd DEF RegisterHosted, IInv, CodesAreIssued
<1>1. Tables[k].life = "unissued"
  <2>1. Tables[k] = NoTable(k)
    BY <1>0, TableOf DEF Table
  <2> QED
    BY <1>0, <2>1, TableFields
<1>2. CASE Registered(n, game)
  <2>1. game.code = k /\ game.claimed = {s} /\ game.host = s
    OBVIOUS
  <2> HIDE DEF game
  <2>2. Tables' = [Tables EXCEPT ![k] =
          [life |-> "game", players |-> game.claimed, host |-> game.host, session |-> n]]
    BY <1>0, <1>2, <2>1, CodeGetsGame
  <2>3. Invitation!Host(k, s, n)
    BY <1>0, <1>1, <2>1, <2>2 DEF Invitation!Host, Invitation!Unused, Invitation!Becomes
  <2> QED
    BY <1>0, <2>3 DEF Invitation!Next
<1>3. CASE UNCHANGED <<inviteTo, games>>
  <2>1. \A j \in Codes \ {k} : Table(j)' = Table(j)
    BY <1>0, <1>3 DEF Table, LobbyTable, GameTable, NoTable
  <2>2. Table(k)' = Invitation!Vacant("closed")
    BY <1>0, <1>3 DEF Table, NoTable, Invitation!Vacant
  <2>3. Invitation!Lose(k)
    BY <1>1, <2>1, <2>2, TableBecomes DEF Invitation!Lose, Invitation!Becomes
  <2> QED
    BY <1>0, <2>3 DEF Invitation!Next
<1> QED
  BY <1>2, <1>3 DEF RegisterHosted

\* The players of a game become others.
LEMMA PlayersSeen ==
  ASSUME IInv, NEW n \in Launches, games[n] # NoGame, NEW C \in SUBSET Seats,
         games' = [games EXCEPT ![n].claimed = C], UNCHANGED <<issued, lobbies, inviteTo>>
  PROVE  /\ Tables[games[n].code] = GameTable(n)
         /\ Tables' = [Tables EXCEPT ![games[n].code] =
              [life |-> "game", players |-> C, host |-> games[n].host, session |-> n]]
<1> PICK k \in Codes : k = games[n].code
  BY GameOf
<1>1. inviteTo[k] = n /\ n # NoLaunch /\ lobbies[k] = NoLobby
  BY GameOf, LobbyAssumption DEF Launches, NoLaunch
<1>2. games'[n].claimed = C /\ games'[n].host = games[n].host /\ \A m \in Launches \ {n} : games'[m] = games[m]
  BY GameOf DEF IInv, TypeOK, Game
<1>3. \A j \in Codes \ {k} : inviteTo[j] # NoLaunch => inviteTo[j] \in Launches \ {n}
  BY DEF IInv, TypeOK, CodesAreUnique
<1>4. \A j \in Codes \ {k} : Table(j)' = Table(j)
  BY <1>2, <1>3 DEF Table, LobbyTable, GameTable, NoTable
<1>5. Table(k)' = [life |-> "game", players |-> C, host |-> games[n].host, session |-> n]
  BY <1>1, <1>2 DEF Table, GameTable
<1>6. Tables[k] = GameTable(n)
  BY <1>1, TableOf DEF Table
<1> QED
  BY <1>4, <1>5, <1>6, TableBecomes

LEMMA JoinGameStep ==
  ASSUME IInv, NEW w \in Workers, NEW k \in Codes, NEW s \in Seats, JoinGame(w, k, s)
  PROVE  Invitation!Next
<1> PICK n \in Launches : n = inviteTo[k]
  BY DEF JoinGame, IInv, TypeOK
<1> DEFINE C == games[n].claimed \cup {s}
<1>1. /\ games[n] # NoGame /\ games[n].code = k
      /\ games' = [games EXCEPT ![n].claimed = C]
      /\ UNCHANGED <<issued, lobbies, inviteTo, launch>>
  BY DEF JoinGame, IInv, CodesAreUnique
<1>2. C \in SUBSET Seats
  BY <1>1, GameOf DEF Game
<1> HIDE DEF C
<1>3. /\ Tables[k] = GameTable(n)
      /\ Tables' = [Tables EXCEPT ![k] =
           [life |-> "game", players |-> C, host |-> games[n].host, session |-> n]]
  BY <1>1, <1>2, PlayersSeen
<1>4. [GameTable(n) EXCEPT !.players = @ \cup {s}]
        = [life |-> "game", players |-> C, host |-> games[n].host, session |-> n]
  BY DEF GameTable, C
<1>5. Invitation!Join(k, s)
  BY <1>3, <1>4, TableFields DEF Invitation!Join, Invitation!Held, Invitation!Becomes
<1> QED
  BY <1>1, <1>5, UsedAlready DEF Invitation!Next

LEMMA LeaveGameStep ==
  ASSUME IInv, NEW w \in Workers, LeaveGame(w)
  PROVE  Invitation!Next
<1> PICK n \in Launches : n = requests[w].session
  BY SessionFields DEF LeaveGame
<1> PICK s \in Seats : s = requests[w].seat
  BY SessionFields DEF LeaveGame
<1>0. UNCHANGED <<issued, lobbies, inviteTo, launch>>
  BY DEF LeaveGame
<1>1. CASE games[n] # NoGame /\ MayLeave(games[n], s)
  <2> PICK k \in Codes : k = games[n].code
    BY <1>1, GameOf
  <2> DEFINE C == games[n].claimed \ {s}
             host == games[n].host
  <2>1. games' = [games EXCEPT ![n].claimed = C]
    BY <1>1 DEF LeaveGame
  <2>2. C \in SUBSET Seats /\ host \in C /\ host \in Seats
    BY <1>1, GameOf DEF Game, MayLeave
  <2>3. /\ Tables[k] = GameTable(n)
        /\ Tables' = [Tables EXCEPT ![k] =
             [life |-> "game", players |-> C, host |-> host, session |-> n]]
    BY <1>0, <1>1, <2>1, <2>2, PlayersSeen
  <2>4. GameTable(n) = [life |-> "game", players |-> games[n].claimed, host |-> host, session |-> n]
    BY DEF GameTable
  <2>5. Invitation!Leave(k, s, host)
    BY <2>2, <2>3, <2>4 DEF Invitation!Leave, Invitation!Held, Invitation!Becomes
  <2> QED
    BY <1>0, <2>2, <2>5, UsedAlready DEF Invitation!Next
<1>2. CASE ~(games[n] # NoGame /\ MayLeave(games[n], s))
  <2>1. UNCHANGED registryVars
    BY <1>0, <1>2 DEF LeaveGame, registryVars
  <2> QED
    BY <1>0, <2>1, UsedAlready, RegistryUnseen
<1> QED
  BY <1>1, <1>2

LEMMA UnregisterStep ==
  ASSUME IInv, NEW n \in Launches, Unregister(n), UNCHANGED <<issued, lobbies, launch>>
  PROVE  Invitation!Next
<1>1. CASE games[n] = NoGame
  <2>1. UNCHANGED registryVars
    BY <1>1 DEF Unregister, registryVars
  <2> QED
    BY <2>1, UsedAlready, RegistryUnseen
<1>2. CASE games[n] # NoGame
  <2> PICK k \in Codes : k = games[n].code
    BY <1>2, GameOf
  <2>1. /\ inviteTo[k] = n /\ n # NoLaunch /\ lobbies[k] = NoLobby /\ k \in issued
    BY <1>2, GameOf, LobbyAssumption DEF Launches, NoLaunch
  <2>2. /\ inviteTo'[k] = NoLaunch /\ \A j \in Codes \ {k} : inviteTo'[j] = inviteTo[j]
        /\ \A m \in Launches \ {n} : games'[m] = games[m]
    BY <1>2 DEF IInv, TypeOK, Unregister
  <2>3. \A j \in Codes \ {k} : inviteTo[j] # NoLaunch => inviteTo[j] \in Launches \ {n}
    BY DEF IInv, TypeOK, CodesAreUnique
  <2>4. \A j \in Codes \ {k} : Table(j)' = Table(j)
    BY <2>2, <2>3 DEF Table, LobbyTable, GameTable, NoTable
  <2>5. Table(k)' = Invitation!Vacant("closed")
    BY <2>1, <2>2 DEF Table, NoTable, Invitation!Vacant
  <2>6. Tables' = [j \in Codes |-> IF j \in {k} THEN Invitation!Vacant("closed") ELSE Tables[j]]
    BY <2>4, <2>5 DEF Tables
  <2>7. \A j \in {k} : Invitation!Held(j)
    <3>1. Tables[k] = GameTable(n)
      BY <2>1, TableOf DEF Table
    <3> QED
      BY <3>1, TableFields DEF Invitation!Held
  <2>8. Invitation!Close({k})
    BY <2>6, <2>7 DEF Invitation!Close
  <2> QED
    BY <2>8, UsedAlready DEF Invitation!Next
<1> QED
  BY <1>1, <1>2

LEMMA JoinedAnsweredStep ==
  ASSUME IInv, NEW w \in Workers, JoinedAnswered(w)
  PROVE  Invitation!Next
<1> PICK n \in Launches : n = requests[w].session
  BY SessionFields DEF JoinedAnswered
<1>1. CASE n \in running
  <2>1. UNCHANGED registryVars /\ UNCHANGED launch
    BY <1>1 DEF JoinedAnswered, registryVars
  <2> QED
    BY <2>1, UsedAlready, RegistryUnseen
<1>2. CASE n \notin running
  BY <1>2, UnregisterStep DEF JoinedAnswered
<1> QED
  BY <1>1, <1>2

LEMMA CloseGameStep ==
  ASSUME IInv, NEW w \in Workers, CloseGame(w)
  PROVE  Invitation!Next
BY SessionFields, UnregisterStep DEF CloseGame

LEMMA LobbyRequestStep ==
  ASSUME IInv, LobbyRequest
  PROVE  Invitation!Next
<1>1. ASSUME NEW k \in Codes, NEW s \in Seats, CreateLobby(k, s) PROVE Invitation!Next
  BY <1>1, CreateLobbyStep
<1>2. ASSUME NEW k \in Codes, JoinLobby(k) PROVE Invitation!Next
  <2> DEFINE free == Seats \ lobbies[k].claimed
  <2>1. lobbies[k] # NoLobby /\ lobbies[k].claimed \in SUBSET Seats /\ free # {} /\ Seated(k, Min(free))
    BY <1>2, LobbyOf, LobbyFields DEF JoinLobby
  <2>2. free \in SUBSET Seats
    OBVIOUS
  <2> HIDE DEF free
  <2>3. Min(free) \in Seats
    BY <2>1, <2>2, FirstSeat
  <2> QED
    BY <2>1, <2>3, SeatedStep
<1>3. ASSUME NEW a \in granted, ResumeLobby(a) PROVE Invitation!Next
  BY <1>3, GrantedType, SeatedStep DEF ResumeLobby, Authentic
<1>4. ASSUME NEW a \in granted, Authentic(a), lobbies' = [lobbies EXCEPT ![a.code].fresh = @ \cup {a.seat}],
             UNCHANGED <<issued, inviteTo, games, launch>>
      PROVE  Invitation!Next
  <2> PICK k \in Codes : k = a.code
    BY GrantedType
  <2> DEFINE F == lobbies[k].fresh \cup {a.seat}
  <2>1. lobbies[k] # NoLobby /\ F \in SUBSET Seats
    BY <1>4, GrantedType, LobbyOf, LobbyFields DEF Authentic
  <2>2. lobbies' = [lobbies EXCEPT ![k] = [@ EXCEPT !.fresh = F]]
    BY <1>4
  <2> HIDE DEF F
  <2> QED
    BY <1>4, <2>1, <2>2, FreshUnseen
<1>5. ASSUME NEW a \in granted, PollLobby(a) PROVE Invitation!Next
  BY <1>4, <1>5 DEF PollLobby
<1>6. ASSUME NEW a \in granted, NEW w \in Workers, NEW op \in {"leave", "update"}, Authenticate(w, a, op)
      PROVE  Invitation!Next
  BY <1>4, <1>6 DEF Authenticate
<1>7. ASSUME NEW w \in Workers, LobbyRefuses(w) PROVE Invitation!Next
  BY <1>7, UsedAlready, RegistryUnseen DEF LobbyRefuses
<1>8. ASSUME NEW w \in Workers, LeaveLobby(w) \/ UpdateOwnSeat(w) \/ UpdateFreeSeat(w)
      PROVE  Invitation!Next
  BY <1>8, LeaveLobbyStep, UpdateOwnSeatStep, UpdateFreeSeatStep
<1> QED
  BY <1>1, <1>2, <1>3, <1>5, <1>6, <1>7, <1>8 DEF LobbyRequest

LEMMA CleanupStep ==
  ASSUME IInv, Cleanup
  PROVE  Invitation!Next
<1>1. CASE Sweep
  <2> DEFINE stale == {k \in Codes : lobbies[k] # NoLobby /\ lobbies[k].fresh \cap lobbies[k].claimed = {}}
  <2>1. /\ lobbies' = [k \in Codes |-> IF k \in stale THEN NoLobby ELSE lobbies[k]]
        /\ UNCHANGED <<issued, inviteTo, games, launch>>
    BY <1>1 DEF Sweep
  <2>2. stale \in SUBSET Codes /\ \A k \in stale : lobbies[k] # NoLobby
    OBVIOUS
  <2> HIDE DEF stale
  <2> QED
    BY <2>1, <2>2, LobbiesClosed
<1>2. ASSUME NEW k \in Codes, NEW s \in Seats, Silent(k, s) PROVE Invitation!Next
  <2> DEFINE F == lobbies[k].fresh \ {s}
  <2>1. lobbies[k] # NoLobby /\ F \in SUBSET Seats
    BY <1>2, LobbyOf, LobbyFields DEF Silent
  <2>2. lobbies' = [lobbies EXCEPT ![k] = [@ EXCEPT !.fresh = F]] /\ UNCHANGED <<issued, inviteTo, games, launch>>
    BY <1>2 DEF Silent
  <2> HIDE DEF F
  <2> QED
    BY <2>1, <2>2, FreshUnseen
<1> QED
  BY <1>1, <1>2 DEF Cleanup

LEMMA NetworkGameStep ==
  ASSUME IInv, NetworkGame
  PROVE  Invitation!Next
<1>1. ASSUME NEW w \in Workers, NEW k \in Codes, NEW s \in Seats, JoinGame(w, k, s)
      PROVE  Invitation!Next
  BY <1>1, JoinGameStep
<1>2. ASSUME NEW w \in Workers, NEW n \in Launches, NEW a \in granted,
             RequestLeave(w, n, a) \/ RequestClose(w, n, a)
      PROVE  Invitation!Next
  BY <1>2, UsedAlready, RegistryUnseen DEF RequestLeave, RequestClose
<1>3. ASSUME NEW w \in Workers, CloseSession(w) PROVE Invitation!Next
  BY <1>3, UsedAlready, RegistryUnseen DEF CloseSession
<1>4. ASSUME NEW w \in Workers, JoinedAnswered(w) \/ LeaveGame(w) \/ CloseGame(w)
      PROVE  Invitation!Next
  BY <1>4, JoinedAnsweredStep, LeaveGameStep, CloseGameStep
<1> QED
  BY <1>1, <1>2, <1>3, <1>4 DEF NetworkGame

\* The registry implements Invitations: every step of the lobbies, the launches,
\* the sweeper and the games is one step in the life of an invite code, or none.
THEOREM RegistryImplementsInvitations == Spec => ImplementsInvitations
<1>1. Init => Invitation!Init
  <2> SUFFICES ASSUME Init PROVE Invitation!Init
    OBVIOUS
  <2>1. \A k \in Codes : Table(k) = Invitation!Vacant("unissued")
    BY DEF Init, Table, NoTable, Invitation!Vacant
  <2>2. Used = {}
    BY DEF Init, Used, IdleLaunch
  <2> QED
    BY <2>1, <2>2 DEF Invitation!Init, Tables
<1>2. IInv /\ [Next]_vars => [Invitation!Next]_(Invitation!vars)
  <2> SUFFICES ASSUME IInv, [Next]_vars PROVE Invitation!Next
    OBVIOUS
  <2>1. CASE LobbyRequest
    BY <2>1, LobbyRequestStep
  <2>2. CASE Cleanup
    BY <2>2, CleanupStep
  <2>3. ASSUME NEW n \in Launches, LaunchThread(n) PROVE Invitation!Next
    BY <2>3, CloneLobbyStep, LaunchFailsStep, CreateSessionStep, RegisterGameStep DEF LaunchThread
  <2>4. ASSUME NEW n \in Launches, SessionTimesOut(n) PROVE Invitation!Next
    BY <2>4, UsedAlready, RegistryUnseen DEF SessionTimesOut
  <2>5. CASE HostedGame
    BY <2>5, HostGameStep, HostRefusedStep, RegisterHostedStep DEF HostedGame
  <2>6. CASE NetworkGame
    BY <2>6, NetworkGameStep
  <2>7. CASE UNCHANGED vars
    BY <2>7, UsedAlready, RegistryUnseen DEF vars, registryVars
  <2> QED
    BY <2>1, <2>2, <2>3, <2>4, <2>5, <2>6, <2>7 DEF Next
<1> QED
  BY <1>1, <1>2, InvariantHolds, PTL DEF Spec, ImplementsInvitations, Invitation!Spec
=============================================================================
