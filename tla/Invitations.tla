------------------------------ MODULE Invitations ------------------------------
(***************************************************************************)
(* What the registry of network games promises to whoever holds an invite  *)
(* code, with nothing of how: no requests, threads, tokens or maps.  A     *)
(* code is issued once.  It names a lobby, then the game of that lobby,    *)
(* played in a session of its own, then nothing for ever; and whatever it  *)
(* names has a host who is one of its players.                             *)
(***************************************************************************)
EXTENDS Naturals

CONSTANTS Codes, Seats, Sessions, None

VARIABLES
  tables,             \* code -> what it names
  used                \* the sessions that have been given to a game or given up

vars == <<tables, used>>

\* Nothing is named: not yet, or no longer
Vacant(life) == [life |-> life, players |-> {}, host |-> None, session |-> None]

Init ==
  /\ tables = [k \in Codes |-> Vacant("unissued")]
  /\ used = {}

Held(k) == tables[k].life \in {"open", "starting", "game"}

Becomes(k, table) == tables' = [tables EXCEPT ![k] = table]

\* A session that no game has had
Unused(n) == n \in used' \ used

Open(k, s) ==
  /\ tables[k].life = "unissued"
  /\ Becomes(k, [life |-> "open", players |-> {s}, host |-> s, session |-> None])

\* A game without a lobby
Host(k, s, n) ==
  /\ tables[k].life = "unissued"
  /\ Unused(n)
  /\ Becomes(k, [life |-> "game", players |-> {s}, host |-> s, session |-> n])

\* A code that is issued for nothing
Lose(k) ==
  /\ tables[k].life = "unissued"
  /\ Becomes(k, Vacant("closed"))

Join(k, s) ==
  /\ Held(k)
  /\ Becomes(k, [tables[k] EXCEPT !.players = @ \cup {s}])

\* Another player hosts a lobby that its host leaves; the host stays in a game.
Leave(k, s, host) ==
  /\ Held(k)
  /\ host \in tables[k].players \ {s}
  /\ host = tables[k].host \/ (s = tables[k].host /\ tables[k].life # "game")
  /\ Becomes(k, [life |-> tables[k].life, players |-> tables[k].players \ {s},
                 host |-> host, session |-> tables[k].session])

Start(k) ==
  /\ tables[k].life = "open"
  /\ tables[k].players = Seats
  /\ Becomes(k, [tables[k] EXCEPT !.life = "starting"])

Fail(k) ==
  /\ tables[k].life = "starting"
  /\ Becomes(k, [tables[k] EXCEPT !.life = "open"])

\* Who plays is what the launch knows of the lobby, which may have changed since.
Play(k, n, players, host) ==
  /\ tables[k].life = "starting"
  /\ Unused(n)
  /\ host \in players
  /\ Becomes(k, [life |-> "game", players |-> players, host |-> host, session |-> n])

Close(K) ==
  /\ \A k \in K : Held(k)
  /\ tables' = [k \in Codes |-> IF k \in K THEN Vacant("closed") ELSE tables[k]]

Next ==
  /\ used \subseteq used'
  /\ \/ UNCHANGED tables
     \/ \E K \in SUBSET Codes : Close(K)
     \/ \E k \in Codes :
          \/ Lose(k) \/ Start(k) \/ Fail(k)
          \/ \E s \in Seats : Open(k, s) \/ Join(k, s) \/ \E h \in Seats : Leave(k, s, h)
          \/ \E n \in Sessions :
               \/ \E s \in Seats : Host(k, s, n)
               \/ \E players \in SUBSET Seats, h \in Seats : Play(k, n, players, h)

Spec == Init /\ [][Next]_vars
=============================================================================
