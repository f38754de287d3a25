------------------------------ MODULE GameSession ------------------------------
(***************************************************************************)
(* One interactive game session of src/session.rs: the game thread that    *)
(* runs the engine and asks the human players, the shared view it          *)
(* publishes, the channel of choices, the HTTP callers that submit them,   *)
(* and the registry entry that keeps the session alive.                    *)
(*                                                                         *)
(* The engine is reduced to its attempts: a stage (stage 0 is the opening  *)
(* sequence, stage n is turn n) asks for some decisions and then completes *)
(* or fails; a failed stage is restored to its checkpoint and played       *)
(* again.  Between two games of a match the players sideboard.  The id of  *)
(* a decision names its turn, player and count within one window, so it    *)
(* recurs: in the next window, in a stage played again, in the next game.  *)
(***************************************************************************)
EXTENDS Naturals, Sequences, FiniteSets

CONSTANTS
  Clients,            \* the callers of submit
  NoClient,           \* nobody holds submit_guard
  NoDecision,         \* the view shows no decision
  DecisionIds,        \* the ids of decisions
  MaxGames,           \* bound: games of the match
  MaxStages,          \* bound: turns of a game
  MaxDecisions,       \* bound: decisions of human players in one stage
  MaxRecoveries,      \* MAX_SESSION_RECOVERIES_PER_CHECKPOINT
  HumanTimeout        \* human_decision_timeout is set

ASSUME SessionAssumption ==
  /\ NoClient \notin Clients
  /\ NoDecision \notin DecisionIds
  /\ MaxGames \in Nat \ {0}
  /\ MaxStages \in Nat
  /\ MaxDecisions \in Nat
  /\ MaxRecoveries \in Nat \ {0}
  /\ HumanTimeout \in BOOLEAN

VARIABLES
  registered,         \* the handle is in the manager's registry
  cancelled,          \* the cancelled flag of the handle
  revision,           \* view.revision
  decision,           \* view.decision: the id of the decision shown
  viewError,          \* view.error: the number of an error, 0 for none
  staged,             \* pending_recovery_error, likewise
  raised,             \* history: the errors raised since the last view of a
                      \* decision; the error raised as the nth has number n
  choices,            \* the channel: the decision a choice names and, for the
                      \* properties only, the revision it was validated against
  thread,             \* "run" the engine works, "await" it waits for a choice, "done"
  game, sideboarding, \* the game of the match, or the sideboarding after it
  stage, asked,       \* the stage of the game and its decisions asked so far
  failures,           \* setup_failures or turn_failures of the stage
  creator,            \* create: "automated" returned at once, "waiting" in
                      \* wait_after(0), "expired" after it, "returned", "failed"
  pc,                 \* client -> "idle", "locking", "checked", "waiting" in
                      \* wait_after, "expired" after it
  submission,         \* client -> the revision and decision it submits for
  guard               \* the holder of submit_guard

viewVars == <<revision, decision, viewError, staged, raised>>
matchVars == <<game, sideboarding>>
threadVars == <<thread, matchVars, stage, asked, failures>>
clientVars == <<pc, submission, guard>>
vars == <<registered, cancelled, viewVars, choices, threadVars, creator, clientVars>>

-------------------------------------------------------------------------------
\* Mutant: the thread holds a sender of its own channel.
SenderHeldByThread == registered \/ thread # "done"

\* A submitter that looked the session up keeps its handle, and with it the
\* sending end of the channel, until it returns.
SenderAlive == registered \/ \E c \in Clients : pc[c] # "idle"

Init ==
  /\ registered = TRUE
  /\ cancelled = FALSE
  /\ revision = 0
  /\ decision = NoDecision
  /\ viewError = 0
  /\ staged = 0
  /\ raised = 0
  /\ choices = <<>>
  /\ thread = "run"
  /\ game = 1
  /\ sideboarding = FALSE
  /\ stage = 0
  /\ asked = 0
  /\ failures = 0
  /\ creator \in {"waiting", "automated"}
  /\ pc = [c \in Clients |-> "idle"]
  /\ submission = [c \in Clients |-> [rev |-> 0, id |-> NoDecision]]
  /\ guard = NoClient

-------------------------------------------------------------------------------
(* The game thread.                                                        *)

\* Mutant: the error staged by an earlier attempt goes before the error of the
\* completion.
PublishCompletionStagedFirst(error) ==
  /\ revision' = revision + 1
  /\ decision' = NoDecision
  /\ raised' = IF error THEN raised + 1 ELSE raised
  /\ viewError' = IF staged # 0 THEN staged ELSE raised'
  /\ staged' = 0
  /\ thread' = "done"
  /\ UNCHANGED <<matchVars, stage, asked, failures>>

\* publish_completion: the last view, after which the thread ends and drops the
\* receiving end of the channel.  It shows its own error or else the staged one,
\* which it takes in either case.
PublishCompletion(error) ==
  /\ revision' = revision + 1
  /\ decision' = NoDecision
  /\ raised' = IF error THEN raised + 1 ELSE raised
  /\ viewError' = IF error THEN raised' ELSE staged
  /\ staged' = 0
  /\ thread' = "done"
  /\ UNCHANGED <<matchVars, stage, asked, failures>>

\* stage_recovery_error: the next view shows the error, instead of any staged
\* before it.
StageRecoveryError ==
  /\ raised' = raised + 1
  /\ staged' = raised'
  /\ UNCHANGED <<revision, decision, viewError>>

\* publish_decision, then the wait for a choice; only a session with human
\* players asks for one.
RequestDecision ==
  /\ thread = "run"
  /\ creator # "automated"
  /\ asked < MaxDecisions
  /\ asked' = asked + 1
  /\ revision' = revision + 1
  /\ decision' \in DecisionIds
  /\ viewError' = staged
  /\ staged' = 0
  /\ raised' = 0
  /\ thread' = "await"
  /\ UNCHANGED <<registered, cancelled, choices, matchVars, stage, failures, creator,
                 clientVars>>

\* Mutant: one recovery more than the checkpoint allows.
FailAttemptOnceMore ==
  \/ /\ ~sideboarding /\ ~cancelled
     /\ failures + 1 <= MaxRecoveries
     /\ failures' = failures + 1
     /\ StageRecoveryError
     /\ thread' = "run"
     /\ asked' = 0
     /\ UNCHANGED <<matchVars, stage>>
  \/ /\ ~sideboarding
     /\ cancelled \/ failures + 1 > MaxRecoveries
     /\ PublishCompletion(TRUE)

\* The attempt at the stage ends in an error: the checkpoint is restored and the
\* stage played again, unless the session was cancelled or this was the last of
\* the recoveries.  Sideboarding keeps the player's deck and goes on instead.
FailAttempt ==
  \/ /\ ~sideboarding /\ ~cancelled
     /\ failures + 1 < MaxRecoveries
     /\ failures' = failures + 1
     /\ StageRecoveryError
     /\ thread' = "run"
     /\ asked' = 0
     /\ UNCHANGED <<matchVars, stage>>
  \/ /\ ~sideboarding
     /\ cancelled \/ failures + 1 >= MaxRecoveries
     /\ PublishCompletion(TRUE)
  \/ /\ sideboarding
     /\ thread' = "run"
     /\ UNCHANGED <<viewVars, matchVars, stage, asked, failures>>

\* An engine error, a panic or an error of a remote player.
AttemptFails ==
  /\ thread = "run"
  /\ ~sideboarding
  /\ FailAttempt
  /\ UNCHANGED <<registered, cancelled, choices, creator, clientVars>>

\* The next choice of the channel answers the decision or, naming another one,
\* is an error of the attempt.
ReceiveChoice ==
  /\ thread = "await"
  /\ choices # <<>>
  /\ choices' = Tail(choices)
  /\ IF Head(choices).id = decision
     THEN /\ thread' = "run"
          /\ UNCHANGED <<viewVars, matchVars, stage, asked, failures>>
     ELSE FailAttempt
  /\ UNCHANGED <<registered, cancelled, creator, clientVars>>

\* recv_timeout gives up; the view goes on showing the decision.
DecisionTimesOut ==
  /\ HumanTimeout
  /\ thread = "await"
  /\ choices = <<>>
  /\ FailAttempt
  /\ UNCHANGED <<registered, cancelled, choices, creator, clientVars>>

\* Every sender is gone.
ChannelDisconnects ==
  /\ thread = "await"
  /\ choices = <<>>
  /\ ~SenderAlive
  /\ FailAttempt
  /\ UNCHANGED <<registered, cancelled, choices, creator, clientVars>>

StageCompletes ==
  /\ thread = "run"
  /\ ~sideboarding
  /\ stage < MaxStages
  /\ stage' = stage + 1
  /\ asked' = 0
  /\ failures' = 0
  /\ UNCHANGED <<registered, cancelled, viewVars, choices, thread, matchVars, creator,
                 clientVars>>

\* The game has a winner who has not won the match yet.
GameCompletes ==
  /\ thread = "run"
  /\ ~sideboarding
  /\ stage > 0
  /\ game < MaxGames
  /\ sideboarding' = TRUE
  /\ asked' = 0
  /\ UNCHANGED <<registered, cancelled, viewVars, choices, thread, game, stage, failures,
                 creator, clientVars>>

\* Every player has sideboarded; the engine of the next game may refuse a deck.
SideboardingCompletes ==
  /\ thread = "run"
  /\ sideboarding
  /\ \/ /\ game' = game + 1
        /\ sideboarding' = FALSE
        /\ stage' = 0
        /\ asked' = 0
        /\ failures' = 0
        /\ UNCHANGED <<viewVars, thread>>
     \/ PublishCompletion(TRUE)
  /\ UNCHANGED <<registered, cancelled, choices, creator, clientVars>>

\* The match is won, or the game ends without a winner or at its turn limit.
MatchCompletes ==
  /\ thread = "run"
  /\ ~sideboarding
  /\ stage > 0
  /\ PublishCompletion(FALSE)
  /\ UNCHANGED <<registered, cancelled, choices, creator, clientVars>>

-------------------------------------------------------------------------------
(* GameSessionManager::create, after it spawned the thread.                *)

Unregister ==
  /\ registered' = FALSE
  /\ cancelled' = (registered \/ cancelled)

\* The first view; one with an error fails the request and leaves the session.
CreateReturns ==
  /\ creator = "waiting"
  /\ revision > 0
  /\ creator' = IF viewError # 0 THEN "failed" ELSE "returned"
  /\ UNCHANGED <<registered, cancelled, viewVars, choices, threadVars, clientVars>>

\* wait_after gives up ...
CreateTimesOut ==
  /\ creator = "waiting"
  /\ revision = 0
  /\ creator' = "expired"
  /\ UNCHANGED <<registered, cancelled, viewVars, choices, threadVars, clientVars>>

\* ... and create removes and cancels the session, which may have published its
\* first view meanwhile.
CreateGivesUp ==
  /\ creator = "expired"
  /\ creator' = "failed"
  /\ Unregister
  /\ UNCHANGED <<viewVars, choices, threadVars, clientVars>>

\* The session's id is known to callers once create returned it, which it does
\* at once for a session without human players.
Known == creator \in {"automated", "returned"}

Remove ==
  /\ Known
  /\ registered
  /\ Unregister
  /\ UNCHANGED <<viewVars, choices, threadVars, creator, clientVars>>

-------------------------------------------------------------------------------
(* GameSessionManager::submit.                                             *)

\* The caller saw this view at some moment and submits an answer to it.
Lookup(c) ==
  /\ Known
  /\ registered
  /\ pc[c] = "idle"
  /\ pc' = [pc EXCEPT ![c] = "locking"]
  /\ submission' = [submission EXCEPT ![c] = [rev |-> revision, id |-> decision]]
  /\ UNCHANGED <<registered, cancelled, viewVars, choices, threadVars, creator, guard>>

Return(c) ==
  /\ pc' = [pc EXCEPT ![c] = "idle"]
  /\ guard' = NoClient
  /\ UNCHANGED submission

\* The view shows the decision and the revision submitted for.
Current(c) ==
  /\ revision = submission[c].rev
  /\ decision # NoDecision
  /\ decision = submission[c].id

\* Mutant: submissions are not serialized.
AcquireUnguarded(c) ==
  /\ pc[c] = "locking"
  /\ IF Current(c)
     THEN /\ guard' = c
          /\ pc' = [pc EXCEPT ![c] = "checked"]
          /\ UNCHANGED submission
     ELSE Return(c)
  /\ UNCHANGED <<registered, cancelled, viewVars, choices, threadVars, creator>>

\* submit_guard is taken and the submission validated against the view.
Acquire(c) ==
  /\ pc[c] = "locking"
  /\ guard = NoClient
  /\ IF Current(c)
     THEN /\ guard' = c
          /\ pc' = [pc EXCEPT ![c] = "checked"]
          /\ UNCHANGED submission
     ELSE Return(c)
  /\ UNCHANGED <<registered, cancelled, viewVars, choices, threadVars, creator>>

\* Sending fails when the thread has ended.
SendChoice(c) ==
  /\ pc[c] = "checked"
  /\ IF thread = "done"
     THEN /\ Return(c)
          /\ UNCHANGED choices
     ELSE /\ choices' = Append(choices, submission[c])
          /\ pc' = [pc EXCEPT ![c] = "waiting"]
          /\ UNCHANGED <<submission, guard>>
  /\ UNCHANGED <<registered, cancelled, viewVars, threadVars, creator>>

\* Mutant: a submission returns as soon as its choice is sent.
SubmitReturnsEarly(c) ==
  /\ pc[c] = "waiting"
  /\ Return(c)
  /\ UNCHANGED <<registered, cancelled, viewVars, choices, threadVars, creator>>

SubmitReturns(c) ==
  /\ pc[c] = "waiting"
  /\ revision > submission[c].rev
  /\ Return(c)
  /\ UNCHANGED <<registered, cancelled, viewVars, choices, threadVars, creator>>

\* wait_after gives up ...
SubmitTimesOut(c) ==
  /\ pc[c] = "waiting"
  /\ revision <= submission[c].rev
  /\ pc' = [pc EXCEPT ![c] = "expired"]
  /\ UNCHANGED <<registered, cancelled, viewVars, choices, threadVars, creator,
                 submission, guard>>

\* Mutant: the guard survives the timeout.
SubmitGivesUpLocked(c) ==
  /\ pc[c] = "expired"
  /\ Unregister
  /\ pc' = [pc EXCEPT ![c] = "idle"]
  /\ UNCHANGED <<viewVars, choices, threadVars, creator, submission, guard>>

\* ... and the session is removed and cancelled, under the guard, although its
\* choice may have been taken meanwhile.
SubmitGivesUp(c) ==
  /\ pc[c] = "expired"
  /\ Unregister
  /\ Return(c)
  /\ UNCHANGED <<viewVars, choices, threadVars, creator>>

-------------------------------------------------------------------------------
GameThread ==
  \/ RequestDecision
  \/ AttemptFails
  \/ ReceiveChoice
  \/ DecisionTimesOut
  \/ ChannelDisconnects
  \/ StageCompletes
  \/ GameCompletes
  \/ SideboardingCompletes
  \/ MatchCompletes

Creator == CreateReturns \/ CreateTimesOut \/ CreateGivesUp

Submit(c) ==
  \/ Acquire(c)
  \/ SendChoice(c)
  \/ SubmitReturns(c)
  \/ SubmitTimesOut(c)
  \/ SubmitGivesUp(c)

Next ==
  \/ GameThread
  \/ Creator
  \/ Remove
  \/ \E c \in Clients : Lookup(c) \/ Submit(c)

Spec == Init /\ [][Next]_vars

\* The game thread and the callers are scheduled; no human has to answer.
Fairness ==
  /\ WF_vars(GameThread)
  /\ WF_vars(Creator)
  /\ \A c \in Clients : SF_vars(Acquire(c)) /\ WF_vars(Submit(c))

FairSpec == Spec /\ Fairness

-------------------------------------------------------------------------------
(* Properties.                                                             *)

Submissions == [rev : Nat, id : DecisionIds \cup {NoDecision}]

\* Every variable has its type and the recoveries stay below their limit.
TypeOK ==
  /\ registered \in BOOLEAN
  /\ cancelled \in BOOLEAN
  /\ revision \in Nat
  /\ decision \in DecisionIds \cup {NoDecision}
  /\ viewError \in Nat
  /\ staged \in Nat
  /\ raised \in Nat
  /\ choices \in Seq(Submissions)
  /\ thread \in {"run", "await", "done"}
  /\ game \in 1..MaxGames
  /\ sideboarding \in BOOLEAN
  /\ sideboarding => game < MaxGames
  /\ stage \in 0..MaxStages
  /\ asked \in 0..MaxDecisions
  /\ failures \in 0..(MaxRecoveries - 1)
  /\ creator \in {"automated", "waiting", "expired", "returned", "failed"}
  /\ pc \in [Clients -> {"idle", "locking", "checked", "waiting", "expired"}]
  /\ submission \in [Clients -> Submissions]
  /\ guard \in Clients \cup {NoClient}

\* Between concurrent submitters of one view, one wins: while the session lives
\* and no decision times out, the channel holds at most the one choice that
\* answers the decision the thread waits for.  A second submitter of the same
\* revision must find the guard taken or the revision gone, although the view
\* shows an answered decision until the next one is published.
QueueMatchesView ==
  ~cancelled /\ ~HumanTimeout /\ choices # <<>> =>
    /\ thread = "await"
    /\ choices = <<[rev |-> revision, id |-> decision]>>

\* A choice answers the revision it was validated against: a submission that is
\* stale by the time the thread reads it is not taken for an answer (submit
\* rejects a stale revision, and the contract test expects status 409).
ChoiceAnswersItsRevision ==
  [][(thread = "await" /\ choices # <<>> /\ choices' = Tail(choices) /\ ~cancelled)
       => Head(choices).rev = revision]_vars

\* Every view reports the latest error raised since the view before it, the
\* completion's own included, and none when there was none: an error may only be
\* replaced by a later one, by stage_recovery_error or by publish_completion,
\* and is never shown twice.
LatestErrorIsShown ==
  [][revision' # revision =>
       viewError' = IF thread' = "done" THEN raised' ELSE raised]_vars

\* A session that left the registry, by DELETE or by either timeout, does not
\* leave its thread behind, although its decision has no timeout of its own: the
\* thread notices that every sender of its channel is gone.
RemovedSessionEnds == ~registered ~> thread = "done"

\* Every submit call returns.
SubmitReturnsEventually == \A c \in Clients : pc[c] # "idle" ~> pc[c] = "idle"
================================================================================
