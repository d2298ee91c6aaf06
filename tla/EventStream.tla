----------------------------- MODULE EventStream -----------------------------
(***************************************************************************)
(* The browser's end of a user's event stream: the client that keeps a     *)
(* connection to GET /events/stream open, and the provider that starts it, *)
(* restarts it when the access token changes, and stops it on unmount.     *)
(*                                                                         *)
(* An event is its position in the sequence published on the user's        *)
(* channel.  A connection is one call of connect() that got past the token *)
(* check; its identifier is free again when the call has returned, so only *)
(* the number of connections alive at once is bounded.  The delays of the  *)
(* backoff, and reconnectAttempt which only sets them, are left out: a     *)
(* timer fires at any time.                                                *)
(***************************************************************************)
EXTENDS Naturals, Sequences, FiniteSets

CONSTANTS
  Conns,          \* identifiers for the connections alive at once
  MaxCalls,       \* bound on the calls of start() and restart()
  MaxEvents       \* bound on the events published

ASSUME StreamAssumption ==
  IsFiniteSet(Conns) /\ MaxCalls \in Nat /\ MaxEvents \in Nat

VARIABLES
  token,      \* whether an access token is stored
  started,    \* the provider is mounted
  status,     \* what the subscribers of the status were told last
  controller, \* the connection this.controller was made for: a set of at most one
  conns,      \* how far each connect() is, and the frames it has not read
  timers,     \* number of pending reconnect timers
  tracked,    \* this.reconnectTimer refers to a timer that is still pending
  published,  \* number of events the server published for the user
  handled,    \* history: the events given to the listeners, in order
  calls       \* history: calls of start() and restart() that connected

streamVars == <<token, started, status, controller, conns, timers, tracked,
                published, handled, calls>>

Connection == [phase : {"free", "fetching", "streaming"}, aborted : BOOLEAN,
               inbox : Seq(0 .. MaxEvents)]

Free == [phase |-> "free", aborted |-> FALSE, inbox |-> << >>]

Connected == 0                      \* the handshake frame, before any event

Live == {c \in Conns : conns[c].phase # "free"}
Listening == {c \in Conns : conns[c].phase = "streaming" /\ ~conns[c].aborted}

-----------------------------------------------------------------------------
(* connect and scheduleReconnect *)

ScheduleTwice(pending) ==            \* mutant: an error and its finally both schedule
  timers' = pending + 2 /\ tracked' = TRUE

ScheduleReconnect(pending) == timers' = pending + 1 /\ tracked' = TRUE

ConnectGivesUp(stored, table, pending, kept) ==   \* mutant: nothing without a token
  /\ timers' = pending /\ tracked' = kept
  /\ \/ /\ stored
        /\ \E c \in Conns :
             /\ table[c].phase = "free"
             /\ controller' = {c}
             /\ conns' = [table EXCEPT ![c].phase = "fetching"]
        /\ status' = "connecting"
     \/ /\ ~stored
        /\ conns' = table
        /\ UNCHANGED <<status, controller>>

(* connect() with `stored` telling whether there is a token, `table` the
   connections, and `pending` and `kept` the timers its caller left. *)
Connect(stored, table, pending, kept) ==
  \/ /\ stored
     /\ \E c \in Conns :
          /\ table[c].phase = "free"
          /\ controller' = {c}
          /\ conns' = [table EXCEPT ![c].phase = "fetching"]
     /\ status' = "connecting"
     /\ timers' = pending /\ tracked' = kept
  \/ /\ ~stored
     /\ conns' = table
     /\ ScheduleReconnect(pending)
     /\ UNCHANGED <<status, controller>>

(* controller.abort(): the frames not read yet are gone with the body. *)
Aborted ==
  [c \in Conns |-> IF c \in controller \cap Live
                   THEN [conns[c] EXCEPT !.aborted = TRUE, !.inbox = << >>]
                   ELSE conns[c]]

-----------------------------------------------------------------------------
(* The provider *)

(* Mounting: start(), then the subscription to the token store. *)
Mount ==
  /\ ~started /\ calls < MaxCalls
  /\ started' = TRUE
  /\ calls' = calls + 1
  /\ Connect(token, conns, timers, tracked)
  /\ UNCHANGED <<token, published, handled>>

(* Unmounting: stop(), and no listener is left. *)
Unmount ==
  /\ started
  /\ started' = FALSE
  /\ timers' = IF tracked THEN timers - 1 ELSE timers
  /\ tracked' = FALSE
  /\ conns' = Aborted
  /\ controller' = {}
  /\ status' = "idle"
  /\ UNCHANGED <<token, published, handled, calls>>

(* setAccessToken tells the provider, which calls restart(). *)
SetToken(stored) ==
  /\ token' = stored
  /\ UNCHANGED <<started, published, handled>>
  /\ \/ /\ started /\ calls < MaxCalls
        /\ calls' = calls + 1
        /\ Connect(stored, Aborted, timers, tracked)
     \/ /\ ~started /\ token # stored
        /\ UNCHANGED <<status, controller, conns, timers, tracked, calls>>

-----------------------------------------------------------------------------
(* Connections and timers *)

FireTimer ==
  /\ timers > 0
  /\ \E kept \in IF tracked /\ timers > 1 THEN BOOLEAN ELSE {FALSE} :
       /\ IF started THEN Connect(token, conns, timers - 1, kept)
          ELSE /\ timers' = timers - 1 /\ tracked' = kept
               /\ UNCHANGED <<status, controller, conns>>
  /\ UNCHANGED <<token, started, published, handled, calls>>

(* The server has subscribed to the channel and sent the handshake. *)
Accept(c) ==
  /\ conns[c].phase = "fetching" /\ ~conns[c].aborted
  /\ conns' = [conns EXCEPT ![c].phase = "streaming", ![c].inbox = <<Connected>>]
  /\ UNCHANGED <<token, started, status, controller, timers, tracked, published, handled, calls>>

(* An event is published; nobody but the connections of the moment gets it. *)
Publish ==
  /\ published < MaxEvents
  /\ published' = published + 1
  /\ conns' = [c \in Conns |-> IF c \in Listening
                                THEN [conns[c] EXCEPT !.inbox = Append(@, published + 1)]
                                ELSE conns[c]]
  /\ UNCHANGED <<token, started, status, controller, timers, tracked, handled, calls>>

(* One frame is read: the handshake, or an event for the listeners. *)
Receive(c) ==
  /\ conns[c].inbox # << >>
  /\ conns' = [conns EXCEPT ![c].inbox = Tail(@)]
  /\ status' = "open"
  /\ handled' = IF started /\ Head(conns[c].inbox) # Connected
                THEN Append(handled, Head(conns[c].inbox)) ELSE handled
  /\ UNCHANGED <<token, started, controller, timers, tracked, published, calls>>

FinishSilently(c) ==                 \* mutant: the status is not told
  /\ c \in Live
  /\ conns' = [conns EXCEPT ![c] = Free]
  /\ IF started THEN ScheduleReconnect(timers) ELSE UNCHANGED <<timers, tracked>>
  /\ UNCHANGED <<token, started, status, controller, published, handled, calls>>

FinishForGood(c) ==                  \* mutant: no reconnect
  /\ c \in Live
  /\ conns' = [conns EXCEPT ![c] = Free]
  /\ status' = "closed"
  /\ UNCHANGED <<token, started, controller, timers, tracked, published, handled, calls>>

(* The connection ends - refused, broken, closed by the server or aborted.
   The finally block runs after the early return of an abort as well, so
   each way out ends alike. *)
Finish(c) ==
  /\ c \in Live
  /\ conns' = [conns EXCEPT ![c] = Free]
  /\ status' = "closed"
  /\ IF started THEN ScheduleReconnect(timers) ELSE UNCHANGED <<timers, tracked>>
  /\ UNCHANGED <<token, started, controller, published, handled, calls>>

-----------------------------------------------------------------------------

Init ==
  /\ token \in BOOLEAN
  /\ started = FALSE
  /\ status = "idle"
  /\ controller = {}
  /\ conns = [c \in Conns |-> Free]
  /\ timers = 0 /\ tracked = FALSE
  /\ published = 0
  /\ handled = << >>
  /\ calls = 0

(* The steps of the client; events come from whoever publishes them. *)
Client ==
  \/ Mount \/ Unmount \/ FireTimer
  \/ \E stored \in BOOLEAN : SetToken(stored)
  \/ \E c \in Conns : Accept(c) \/ Receive(c) \/ Finish(c)

Next == Client \/ Publish

Spec == Init /\ [][Next]_streamVars

(* Timers fire and an aborted fetch rejects; networks and users owe nothing. *)
Fairness ==
  /\ WF_streamVars(FireTimer)
  /\ \A c \in Conns : WF_streamVars(conns[c].aborted /\ Finish(c))

FairSpec == Spec /\ Fairness

-----------------------------------------------------------------------------
(* Properties *)

(* The variables have their types. *)
TypeOK ==
  /\ token \in BOOLEAN /\ started \in BOOLEAN
  /\ status \in {"idle", "connecting", "open", "closed"}
  /\ controller \in SUBSET Conns
  /\ conns \in [Conns -> Connection]
  /\ timers \in Nat /\ tracked \in BOOLEAN
  /\ published \in 0 .. MaxEvents
  /\ handled \in Seq(1 .. MaxEvents)
  /\ calls \in 0 .. MaxCalls

(* Each call of start() or restart() leads to at most one connection or
   pending timer at a time: a restart leaks one, as its aborted connection
   schedules a reconnect as well, and retries never multiply (connect's
   finally and scheduleReconnect). *)
BoundedConnections == Cardinality(Live) + timers <= calls

(* A mounted provider never ends up without a connection or a timer that
   will make one ("swallow - reconnect handles recovery"). *)
NeverSilent == started => Live # {} \/ timers > 0

(* Until a second start or restart, the listeners get the events in the order
   they were published and none twice, over any number of reconnects. *)
OrderedDelivery ==
  calls <= 1 => \A i, k \in DOMAIN handled : i < k => handled[i] < handled[k]

(* The status says open only while some response is being read, whatever
   the endings of older connections do to it. *)
OpenIsOpen == status = "open" => \E c \in Conns : conns[c].phase = "streaming"

(* A mounted provider with a token comes to try a connection that nobody
   aborted, or it is unmounted or loses the token. *)
KeepsTrying ==
  started /\ token ~> ~started \/ ~token \/ \E c \in Live : ~conns[c].aborted
=============================================================================
