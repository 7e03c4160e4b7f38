----------------------------- MODULE EventStream -----------------------------
(***************************************************************************)
(* How the steps of one run reach the clients of GET /runs/{id}/events.    *)
(*                                                                         *)
(* on_message stores a message and then publishes the events derived from  *)
(* it, one PUBLISH each; the worker ends with the row's terminal status    *)
(* and a terminal event.  A client's handler reads the row, then the       *)
(* messages stored so far, replays their events, and only then subscribes  *)
(* to the run's channel.  Redis hands a published event to whoever is      *)
(* subscribed at that moment and keeps nothing.                            *)
(*                                                                         *)
(* The worker and the cancel endpoint both read the row and write it back  *)
(* later, without a lock, so either may write over what the other did:     *)
(* the row can change after a client was told how the run ended.  What     *)
(* that does to the row is RunPipeline's; here it is what a client sees.   *)
(***************************************************************************)
EXTENDS Naturals, Sequences, FiniteSets

CONSTANTS
    Clients,     \* handlers of GET /runs/{id}/events
    Requests,    \* handlers of POST /runs/{id}/cancel, each one request after another
    Transcript,  \* the messages the agent may go through, in order
    StopsOn      \* may the worker, or a cancel request, stop before it is done?

Blocks == {"text", "empty_text", "tool_use", "tool_result", "other"}

ASSUME TranscriptAssumption ==
    Transcript \in Seq([role : {"user", "assistant"}, blocks : Seq(Blocks)])

ASSUME StopsAssumption == StopsOn \in BOOLEAN

VARIABLES
    status,     \* the status column of the run
    stored,     \* how many messages are committed
    emitted,    \* how many events of the last stored message were published
    stage,      \* what comes next for the run
    outcome,    \* how the run is about to end
    cancel,     \* cancel request: what its handler does next
    overwrote,  \* history: a COMMIT changed a status its writer had not read
    cpc,        \* client: next step of its handler
    seen,       \* client: the status its handler read
    replayed,   \* client: how many messages its handler read
    inbox,      \* client: events in its subscription not yet forwarded
    sent,       \* client: the events sent to it
    missed,     \* history: events published while its handler was between
                \* reading the messages and subscribing
    late        \* history: events published after the one that closes its
                \* stream was sent to it or was in its subscription

runVars    == <<status, stored, emitted, stage, outcome, cancel, overwrote>>
clientVars == <<cpc, seen, replayed, inbox, sent, missed, late>>
vars == <<runVars, clientVars>>

Terminal == {"succeeded", "failed", "cancelled"}
Messages == 1..Len(Transcript)

-----------------------------------------------------------------------------
(* derive_events: which blocks of a message become events, in block order. *)

Shown(m, i) ==
    LET block == Transcript[m].blocks[i]
    IN  \/ block = "text" /\ Transcript[m].role = "assistant"
        \/ block \in {"tool_use", "tool_result"}

(* Mutant of EventType: a type no client knows. *)
EventTypeIsBlock(block) == block

EventType(block) ==
    CASE block = "text"        -> "text"
      [] block = "tool_use"    -> "tool_call"
      [] block = "tool_result" -> "tool_result"

BlockEvents(m, i) ==
    IF Shown(m, i)
    THEN <<[type |-> EventType(Transcript[m].blocks[i]), msg |-> m, block |-> i]>>
    ELSE << >>

DeriveEvents(m) ==
    LET events[i \in 0..Len(Transcript[m].blocks)] ==
            IF i = 0 THEN << >> ELSE events[i - 1] \o BlockEvents(m, i)
    IN  events[Len(Transcript[m].blocks)]

(* The events of the first n messages: what the handler replays. *)
Replay[n \in 0..Len(Transcript)] ==
    IF n = 0 THEN << >> ELSE Replay[n - 1] \o DeriveEvents(n)

(* The event that closes the stream, after every message. *)
EndEvent(s) ==
    [type |-> CASE s = "succeeded" -> "done" [] s = "failed" -> "error" [] s = "cancelled" -> "cancelled",
     msg |-> Len(Transcript) + 1, block |-> 0]

Closing(e) == e.type \in {"done", "error", "cancelled"}

Init ==
    /\ status = "queued"
    /\ stored = 0
    /\ emitted = 0
    /\ stage = "queued"
    /\ outcome = "none"
    /\ cancel = [k \in Requests |-> "idle"]
    /\ overwrote = FALSE
    /\ cpc = [c \in Clients |-> "idle"]
    /\ seen = [c \in Clients |-> "none"]
    /\ replayed = [c \in Clients |-> 0]
    /\ inbox = [c \in Clients |-> << >>]
    /\ sent = [c \in Clients |-> << >>]
    /\ missed = [c \in Clients |-> {}]
    /\ late = [c \in Clients |-> {}]

-----------------------------------------------------------------------------
(* PUBLISH *)

(* The subscription of client c takes an event that will be read. *)
Listens(c) == cpc[c] = "listen" /\ \A i \in DOMAIN inbox[c] : ~Closing(inbox[c][i])

(* What was published and client c will not read. *)
Unread(e) ==
    /\ missed' = [c \in Clients |-> IF cpc[c] \in {"replay", "subscribe"}
                                    THEN missed[c] \union {e} ELSE missed[c]]
    /\ late' = [c \in Clients |-> IF cpc[c] \in {"listen", "closed"} /\ ~Listens(c)
                                  THEN late[c] \union {e} ELSE late[c]]

(* Mutant of Publish: the newest event is delivered first. *)
PublishNewestFirst(e) ==
    /\ inbox' = [c \in Clients |-> IF Listens(c) THEN <<e>> \o inbox[c] ELSE inbox[c]]
    /\ Unread(e)
    /\ UNCHANGED <<cpc, seen, replayed, sent>>

(* PUBLISH reaches the subscribers of this moment.  What follows a closing *)
(* event in a subscription is never read: it is left out of inbox.         *)
Publish(e) ==
    /\ inbox' = [c \in Clients |-> IF Listens(c) THEN Append(inbox[c], e) ELSE inbox[c]]
    /\ Unread(e)
    /\ UNCHANGED <<cpc, seen, replayed, sent>>

-----------------------------------------------------------------------------
(* The worker: _process_one with its two transactions and on_message.      *)

(* A COMMIT of status s by a writer that read one of the statuses known.   *)
Write(s, known) ==
    /\ status' = s
    /\ overwrote' = (overwrote \/ status \notin known)

(* The first transaction reads the row ... *)
ClaimGet ==
    /\ stage = "queued"
    /\ status = "queued"
    /\ stage' = "claiming"
    /\ UNCHANGED <<status, stored, emitted, outcome, cancel, overwrote, clientVars>>

ClaimSkip ==
    /\ stage = "queued"
    /\ status # "queued"
    /\ stage' = "dropped"
    /\ UNCHANGED <<status, stored, emitted, outcome, cancel, overwrote, clientVars>>

(* ... and writes it, whatever it is by now. *)
ClaimCommit ==
    /\ stage = "claiming"
    /\ Write("running", {"queued"})
    /\ stage' = "agent"
    /\ UNCHANGED <<stored, emitted, outcome, cancel, clientVars>>

(* Every event of every stored message is published. *)
CaughtUp == emitted = (IF stored = 0 THEN 0 ELSE Len(DeriveEvents(stored)))

(* on_message: the message is committed ... *)
StoreMessage ==
    /\ stage = "agent"
    /\ CaughtUp
    /\ stored < Len(Transcript)
    /\ stored' = stored + 1
    /\ emitted' = 0
    /\ UNCHANGED <<status, stage, outcome, cancel, overwrote, clientVars>>

(* ... and then its events are published one by one. *)
PublishEvent ==
    /\ stage = "agent"
    /\ ~CaughtUp
    /\ emitted' = emitted + 1
    /\ Publish(DeriveEvents(stored)[emitted + 1])
    /\ UNCHANGED <<status, stored, stage, outcome, cancel, overwrote>>

(* The loop returns after a message is dealt with; an error or the cancel  *)
(* signal can end it anywhere, between a commit and a PUBLISH included.    *)
(* A cancel request that finds the run running only sets the key, and that *)
(* the loop or the watchdog sees it is AgentEnds("cancelled").             *)
AgentEnds(s) ==
    /\ stage = "agent"
    /\ s = "succeeded" => CaughtUp /\ stored > 0
    /\ outcome' = s
    /\ stage' = "finish"
    /\ UNCHANGED <<status, stored, emitted, cancel, overwrote, clientVars>>

(* The second transaction reads the row ... *)
FinalGet ==
    /\ stage = "finish"
    /\ status = "running"
    /\ stage' = "finishing"
    /\ UNCHANGED <<status, stored, emitted, outcome, cancel, overwrote, clientVars>>

(* ... mark_* raises InvalidTransition on a status that is not running ... *)
FinalRejected ==
    /\ stage = "finish"
    /\ status # "running"
    /\ stage' = "dropped"
    /\ UNCHANGED <<status, stored, emitted, outcome, cancel, overwrote, clientVars>>

(* ... or the outcome is written, and then announced. *)
FinalCommit ==
    /\ stage = "finishing"
    /\ Write(outcome, {"running"})
    /\ stage' = "announce"
    /\ UNCHANGED <<stored, emitted, outcome, cancel, clientVars>>

(* Mutant of Announce: a cancellation is not announced. *)
AnnounceUnlessCancelled ==
    /\ stage = "announce"
    /\ IF outcome = "cancelled" THEN UNCHANGED clientVars ELSE Publish(EndEvent(outcome))
    /\ stage' = "over"
    /\ UNCHANGED <<status, stored, emitted, outcome, cancel, overwrote>>

Announce ==
    /\ stage = "announce"
    /\ Publish(EndEvent(outcome))
    /\ stage' = "over"
    /\ UNCHANGED <<status, stored, emitted, outcome, cancel, overwrote>>

(* The process ends, the queue loses the id, or a call to Postgres or      *)
(* Redis outside the agent raises and run_worker goes on to the next run.  *)
WorkerStops ==
    /\ StopsOn
    /\ stage \in {"queued", "claiming", "agent", "finish", "finishing", "announce"}
    /\ stage' = IF stage = "announce" THEN "silent" ELSE "stopped"
    /\ UNCHANGED <<status, stored, emitted, outcome, cancel, overwrote, clientVars>>

-----------------------------------------------------------------------------
(* A cancel request: cancel_run and its endpoint.  One that finds the run  *)
(* running or ended changes nothing here.                                  *)

CancelGet(k) ==
    /\ cancel[k] = "idle"
    /\ status = "queued"
    /\ cancel' = [cancel EXCEPT ![k] = "commit"]
    /\ UNCHANGED <<status, stored, emitted, stage, outcome, overwrote, clientVars>>

(* The run is cancelled already: "idempotent", but announced once more.    *)
CancelAgain(k) ==
    /\ cancel[k] = "idle"
    /\ status = "cancelled"
    /\ cancel' = [cancel EXCEPT ![k] = "publish"]
    /\ UNCHANGED <<status, stored, emitted, stage, outcome, overwrote, clientVars>>

(* The row is written, whatever it is by now. *)
CancelCommit(k) ==
    /\ cancel[k] = "commit"
    /\ Write("cancelled", {"queued", "cancelled"})
    /\ cancel' = [cancel EXCEPT ![k] = "publish"]
    /\ UNCHANGED <<stored, emitted, stage, outcome, clientVars>>

CancelPublish(k) ==
    /\ cancel[k] = "publish"
    /\ Publish(EndEvent("cancelled"))
    /\ cancel' = [cancel EXCEPT ![k] = "idle"]
    /\ UNCHANGED <<status, stored, emitted, stage, outcome, overwrote>>

(* Postgres or Redis fails the request, or the API process ends. *)
CancelFails(k) ==
    /\ StopsOn
    /\ cancel[k] \in {"commit", "publish"}
    /\ cancel' = [cancel EXCEPT ![k] = "failed"]
    /\ UNCHANGED <<status, stored, emitted, stage, outcome, overwrote, clientVars>>

-----------------------------------------------------------------------------
(* A client: run_events and the generator _event_stream. *)

(* The two SELECTs of run_events; READ COMMITTED, so two snapshots. *)
ReadRun(c) ==
    /\ cpc[c] = "idle"
    /\ seen' = [seen EXCEPT ![c] = status]
    /\ cpc' = [cpc EXCEPT ![c] = "history"]
    /\ UNCHANGED <<runVars, replayed, inbox, sent, missed, late>>

ReadHistory(c) ==
    /\ cpc[c] = "history"
    /\ replayed' = [replayed EXCEPT ![c] = stored]
    /\ cpc' = [cpc EXCEPT ![c] = "replay"]
    /\ UNCHANGED <<runVars, seen, inbox, sent, missed, late>>

(* Mutant of ReplayLive: the stored messages are not replayed. *)
ReplayNothing(c) ==
    /\ cpc[c] = "replay"
    /\ seen[c] \notin Terminal
    /\ cpc' = [cpc EXCEPT ![c] = "subscribe"]
    /\ UNCHANGED <<runVars, seen, replayed, inbox, sent, missed, late>>

(* The run was still going: replay, then subscribe. *)
ReplayLive(c) ==
    /\ cpc[c] = "replay"
    /\ seen[c] \notin Terminal
    /\ sent' = [sent EXCEPT ![c] = Replay[replayed[c]]]
    /\ cpc' = [cpc EXCEPT ![c] = "subscribe"]
    /\ UNCHANGED <<runVars, seen, replayed, inbox, missed, late>>

(* The run had ended: replay, send its outcome, close. *)
ReplayEnded(c) ==
    /\ cpc[c] = "replay"
    /\ seen[c] \in Terminal
    /\ sent' = [sent EXCEPT ![c] = Append(Replay[replayed[c]], EndEvent(seen[c]))]
    /\ cpc' = [cpc EXCEPT ![c] = "closed"]
    /\ UNCHANGED <<runVars, seen, replayed, inbox, missed, late>>

Subscribe(c) ==
    /\ cpc[c] = "subscribe"
    /\ cpc' = [cpc EXCEPT ![c] = "listen"]
    /\ UNCHANGED <<runVars, seen, replayed, inbox, sent, missed, late>>

(* Mutant of Forward: the loop does not break on a terminal event. *)
ForwardWithoutBreak(c) ==
    /\ cpc[c] = "listen"
    /\ inbox[c] # << >>
    /\ sent' = [sent EXCEPT ![c] = Append(@, Head(inbox[c]))]
    /\ inbox' = [inbox EXCEPT ![c] = Tail(@)]
    /\ UNCHANGED <<runVars, cpc, seen, replayed, missed, late>>

(* Forward one event; a terminal one ends the loop and the subscription. *)
Forward(c) ==
    /\ cpc[c] = "listen"
    /\ inbox[c] # << >>
    /\ sent' = [sent EXCEPT ![c] = Append(@, Head(inbox[c]))]
    /\ IF Closing(Head(inbox[c]))
       THEN /\ cpc' = [cpc EXCEPT ![c] = "closed"]
            /\ inbox' = [inbox EXCEPT ![c] = << >>]
       ELSE /\ inbox' = [inbox EXCEPT ![c] = Tail(@)]
            /\ UNCHANGED cpc
    /\ UNCHANGED <<runVars, seen, replayed, missed, late>>

(* The client disconnects; the generator's finally unsubscribes. *)
Leave(c) ==
    /\ cpc[c] \in {"replay", "subscribe", "listen"}
    /\ cpc' = [cpc EXCEPT ![c] = "gone"]
    /\ inbox' = [inbox EXCEPT ![c] = << >>]
    /\ UNCHANGED <<runVars, seen, replayed, sent, missed, late>>

-----------------------------------------------------------------------------
RunStep ==
    \/ ClaimGet \/ ClaimSkip \/ ClaimCommit
    \/ StoreMessage \/ PublishEvent
    \/ \E s \in Terminal : AgentEnds(s)
    \/ FinalGet \/ FinalRejected \/ FinalCommit \/ Announce

CancelGoesOn(k) == CancelCommit(k) \/ CancelPublish(k)

CancelStep(k) == CancelGet(k) \/ CancelAgain(k) \/ CancelGoesOn(k) \/ CancelFails(k)

Serve(c) == ReadHistory(c) \/ ReplayLive(c) \/ ReplayEnded(c) \/ Subscribe(c) \/ Forward(c)

Next ==
    \/ RunStep
    \/ WorkerStops
    \/ \E k \in Requests : CancelStep(k)
    \/ \E c \in Clients : ReadRun(c) \/ Serve(c) \/ Leave(c)

Spec == Init /\ [][Next]_vars

(* The run goes on, and every request that was accepted is served; nobody  *)
(* needs to cancel.                                                        *)
FairSpec ==
    /\ Spec
    /\ WF_vars(RunStep)
    /\ \A k \in Requests : WF_vars(CancelGoesOn(k))
    /\ \A c \in Clients : WF_vars(Serve(c))

-----------------------------------------------------------------------------
EventSet ==
    [type : {"text", "tool_call", "tool_result", "done", "error", "cancelled"},
     msg : 1..(Len(Transcript) + 1), block : Nat]

(* Types; only events of the documented types travel. *)
TypeOK ==
    /\ status \in {"queued", "running"} \union Terminal
    /\ stored \in 0..Len(Transcript)
    /\ emitted \in Nat
    /\ stage \in {"queued", "claiming", "agent", "finish", "finishing", "announce",
                  "over", "dropped", "stopped", "silent"}
    /\ outcome \in {"none"} \union Terminal
    /\ cancel \in [Requests -> {"idle", "commit", "publish", "failed"}]
    /\ overwrote \in BOOLEAN
    /\ cpc \in [Clients -> {"idle", "history", "replay", "subscribe", "listen", "closed", "gone"}]
    /\ seen \in [Clients -> {"none", "queued", "running"} \union Terminal]
    /\ replayed \in [Clients -> 0..Len(Transcript)]
    /\ inbox \in [Clients -> Seq(EventSet)]
    /\ sent \in [Clients -> Seq(EventSet)]
    /\ missed \in [Clients -> SUBSET EventSet]
    /\ late \in [Clients -> SUBSET EventSet]

Sent(c) == {sent[c][i] : i \in DOMAIN sent[c]}
Before(e, f) == e.msg < f.msg \/ (e.msg = f.msg /\ e.block < f.block)

(* The part of a client's stream that came through its subscription. *)
Live(c) == SubSeq(sent[c], Len(Replay[replayed[c]]) + 1, Len(sent[c]))

(* What a subscription delivers is in transcript order, without repeats,   *)
(* and repeats at most events of the last message replayed: on_message     *)
(* stores a message before it publishes it (worker.py:63-67).              *)
LiveInOrder ==
    \A c \in Clients : cpc[c] \in {"listen", "closed"} =>
        LET live == Live(c)
        IN  /\ \A i, j \in DOMAIN live : i < j => Before(live[i], live[j])
            /\ \A i \in DOMAIN live : live[i].msg >= replayed[c]

LastSent(c) == sent[c][Len(sent[c])]

(* A stream has at most one terminal event, sent when it closes.  "done"   *)
(* and "error" are the outcome stored, though a cancel that read the row   *)
(* before may since have turned it into cancelled; "cancelled" is sent of  *)
(* a run that was claimed or cancelled.  As long as no stale write changed *)
(* the row, the event is the one the row stands for (worker.py:128-190,    *)
(* run_service.py:20-31, runs.py:77-82, 112-141).                          *)
ClosedByOutcome ==
    \A c \in Clients :
        /\ \A i \in DOMAIN sent[c] : Closing(sent[c][i]) => i = Len(sent[c]) /\ cpc[c] \in {"closed", "gone"}
        /\ cpc[c] = "closed" =>
              /\ sent[c] # << >> /\ Closing(LastSent(c))
              /\ LastSent(c).type = "done" => status \in {"succeeded", "cancelled"}
              /\ LastSent(c).type = "error" => status \in {"failed", "cancelled"}
              /\ LastSent(c).type = "cancelled" => status # "queued"
              /\ ~overwrote => LastSent(c) = EndEvent(status)

(* The steps published so far. *)
Published ==
    UNION {{DeriveEvents(m)[k] : k \in {k \in DOMAIN DeriveEvents(m) : m < stored \/ k <= emitted}}
              : m \in 1..stored}

(* A client whose stream closed got every step that was published, save    *)
(* those published between its SELECT of the messages and its SUBSCRIBE    *)
(* (runs.py:92-130), and those published after a "cancelled" that a cancel *)
(* request sent of a run whose row a stale write brought back to life, or  *)
(* that was claimed meanwhile (runs.py:77-82).                             *)
NothingElseLost ==
    \A c \in Clients : cpc[c] = "closed" =>
        /\ Published \subseteq (Sent(c) \union missed[c] \union late[c])
        /\ (~overwrote \/ LastSent(c).type # "cancelled") => Published \subseteq (Sent(c) \union missed[c])

(* A handler that subscribed before the last closing event is published    *)
(* ends its stream, unless the worker or a cancel request stops before it  *)
(* announces the end, and so does a handler that found the run ended       *)
(* (runs.py:112-141): of a worker whose second transaction is rejected and *)
(* a cancel that raced it, one announces.                                  *)
InTimeStreamEnds ==
    \A c \in Clients :
        /\ (/\ cpc[c] = "listen"
            /\ \/ status \notin Terminal
               \/ stage = "announce"
               \/ \E k \in Requests : cancel[k] = "publish")
           ~> (\/ cpc[c] \in {"closed", "gone"}
               \/ stage \in {"stopped", "silent"}
               \/ \E k \in Requests : cancel[k] = "failed")
        /\ (cpc[c] = "history" /\ seen[c] \in Terminal) ~> cpc[c] \in {"closed", "gone"}

(* What runs.py:78-80 promises of a cancelled run: the endpoint or the     *)
(* worker publishes "so any open SSE stream can close immediately".        *)
OpenStreamCloses ==
    \A c \in Clients :
        (cpc[c] # "idle" /\ status = "cancelled") ~> cpc[c] \in {"closed", "gone"}
=============================================================================
