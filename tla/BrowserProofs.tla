---- MODULE BrowserProofs ----
(***************************************************************************)
(* Proofs about what every page of the app shares.  First EventStream, for *)
(* any number of connections, calls and events: the types, the bound on    *)
(* connections and timers, the client that never falls silent, the honesty *)
(* of the status "open" and the order of the events handled.  Then         *)
(* AuthSession, for any finite set of tabs and any number of attempts and  *)
(* of events of the environment: nobody waits for a refresh that is not    *)
(* under way, and a session is kept as its history promises.  The two      *)
(* specifications stand side by side and no theorem mixes them.            *)
(***************************************************************************)
EXTENDS EventStream, AuthSession, FiniteSetTheorems, SequenceTheorems, TLAPS

(* reconnectTimer refers to a pending timer only if there is one, and frames
   wait only where a response is read. *)
TimerTracked == tracked => timers > 0
FramesOfStreams == \A c \in Conns : conns[c].inbox # << >> => conns[c].phase = "streaming"

StreamInv == /\ TypeOK /\ TimerTracked /\ FramesOfStreams
             /\ BoundedConnections /\ NeverSilent /\ OpenIsOpen

-----------------------------------------------------------------------------
(* What connect() and abort() do to the table of connections *)

(* Aborting keeps the phase of every connection, and empties inboxes at most. *)
LEMMA AbortedTable ==
  ASSUME TypeOK
  PROVE  /\ Aborted \in [Conns -> Connection]
         /\ \A c \in Conns : /\ Aborted[c].phase = conns[c].phase
                             /\ Aborted[c].inbox \in {conns[c].inbox, << >>}
<1>1. << >> \in Seq(0 .. MaxEvents)
  OBVIOUS
<1> SUFFICES ASSUME NEW c \in Conns
             PROVE  /\ Aborted[c] \in Connection /\ Aborted[c].phase = conns[c].phase
                    /\ Aborted[c].inbox \in {conns[c].inbox, << >>}
  BY DEF Aborted
<1>2. conns[c] \in Connection
  BY DEF TypeOK
<1>3. CASE c \in controller \cap Live
  <2>1. Aborted[c] = [conns[c] EXCEPT !.aborted = TRUE, !.inbox = << >>]
    BY <1>3 DEF Aborted
  <2> QED BY <1>1, <1>2, <2>1 DEF Connection
<1>4. CASE c \notin controller \cap Live
  BY <1>2, <1>4 DEF Aborted
<1> QED BY <1>3, <1>4

(* Changing one connection to a free or to a used one changes the number of
   those alive accordingly. *)
LEMMA LiveAfterConnect ==
  ASSUME TypeOK, NEW table \in [Conns -> Connection], NEW c \in Conns,
         \A d \in Conns : table[d].phase = conns[d].phase,
         table[c].phase = "free",
         conns' = [table EXCEPT ![c].phase = "fetching"]
  PROVE  /\ Live' = Live \cup {c} /\ c \notin Live
         /\ conns' \in [Conns -> Connection]
  BY DEF TypeOK, Live, Connection

LEMMA LiveAfterFinish ==
  ASSUME TypeOK, NEW c \in Live, conns' = [conns EXCEPT ![c] = Free]
  PROVE  Live' = Live \ {c} /\ conns' \in [Conns -> Connection]
  BY DEF TypeOK, Live, Free, Connection

LEMMA LiveFinite == IsFiniteSet(Live) /\ Cardinality(Live) \in Nat
  BY StreamAssumption, FS_Subset, FS_CardinalityType DEF Live

(* connect() takes the invariant's parts from the table and the timers its
   caller left to those after it. *)
LEMMA ConnectStep ==
  ASSUME TypeOK, FramesOfStreams, OpenIsOpen,
         NEW signed \in BOOLEAN, NEW table \in [Conns -> Connection],
         NEW pending \in Nat, NEW kept \in BOOLEAN,
         kept => pending > 0,
         \A c \in Conns : /\ table[c].phase = conns[c].phase
                          /\ table[c].inbox \in {conns[c].inbox, << >>},
         Connect(signed, table, pending, kept)
  PROVE  /\ status' \in {"idle", "connecting", "open", "closed"}
         /\ controller' \in SUBSET Conns
         /\ conns' \in [Conns -> Connection]
         /\ timers' \in Nat /\ tracked' \in BOOLEAN
         /\ TimerTracked' /\ FramesOfStreams' /\ OpenIsOpen'
         /\ Live' # {} \/ timers' > 0
         /\ Cardinality(Live') + timers' = Cardinality(Live) + pending + 1
<1>1. CASE signed
  <2>1. PICK c \in Conns : /\ table[c].phase = "free" /\ controller' = {c}
                           /\ conns' = [table EXCEPT ![c].phase = "fetching"]
    BY <1>1 DEF Connect
  <2>2. /\ Live' = Live \cup {c} /\ c \notin Live /\ conns' \in [Conns -> Connection]
    BY <2>1, LiveAfterConnect
  <2>3. Cardinality(Live') = Cardinality(Live) + 1
    BY <2>2, LiveFinite, FS_AddElement
  <2>4. status' = "connecting" /\ timers' = pending /\ tracked' = kept
    BY <1>1 DEF Connect
  <2>5. FramesOfStreams'
    BY <2>1, <2>2 DEF FramesOfStreams, Connection
  <2> QED BY <2>1, <2>2, <2>3, <2>4, <2>5, LiveFinite DEF TimerTracked, OpenIsOpen
<1>2. CASE ~signed
  <2>1. conns' = table /\ timers' = pending + 1 /\ tracked' = TRUE
        /\ status' = status /\ controller' = controller
    BY <1>2 DEF Connect, ScheduleReconnect
  <2>2. Live' = Live
    BY <2>1 DEF Live
  <2>3. FramesOfStreams' /\ OpenIsOpen'
    BY <2>1 DEF FramesOfStreams, OpenIsOpen
  <2> QED BY <2>1, <2>2, <2>3, LiveFinite DEF TypeOK, TimerTracked
<1> QED BY <1>1, <1>2

-----------------------------------------------------------------------------
(* Each action preserves the invariant *)

LEMMA InitInv == Init => StreamInv
<1> SUFFICES ASSUME Init PROVE StreamInv
  OBVIOUS
<1>1. conns \in [Conns -> Connection]
  BY DEF Init, Free, Connection
<1>2. Live = {} /\ \A c \in Conns : conns[c].inbox = << >>
  BY DEF Init, Free, Live
<1>3. Cardinality(Live) = 0
  BY <1>2, FS_EmptySet
<1>4. handled \in Seq(1 .. MaxEvents)
  BY DEF Init
<1>5. published \in 0 .. MaxEvents /\ calls \in 0 .. MaxCalls
  BY StreamAssumption DEF Init
<1>6. /\ token \in BOOLEAN /\ started \in BOOLEAN /\ controller \in SUBSET Conns
      /\ status \in {"idle", "connecting", "open", "closed"}
      /\ timers \in Nat /\ tracked \in BOOLEAN
  BY DEF Init
<1>7. TypeOK
  BY ONLY <1>1, <1>4, <1>5, <1>6 DEF TypeOK
<1> QED BY <1>2, <1>3, <1>7, StreamAssumption
        DEF Init, StreamInv, TimerTracked, FramesOfStreams, BoundedConnections, NeverSilent, OpenIsOpen

LEMMA MountInv == StreamInv /\ Mount => StreamInv'
<1> SUFFICES ASSUME StreamInv, Mount PROVE StreamInv'
  OBVIOUS
<1>1. /\ TypeOK /\ FramesOfStreams /\ OpenIsOpen /\ TimerTracked
      /\ Cardinality(Live) + timers <= calls
  BY DEF StreamInv, BoundedConnections
<1>2. Connect(token, conns, timers, tracked) /\ calls' = calls + 1 /\ calls < MaxCalls
  BY DEF Mount
<1>3. /\ status' \in {"idle", "connecting", "open", "closed"}
      /\ controller' \in SUBSET Conns
      /\ conns' \in [Conns -> Connection]
      /\ timers' \in Nat /\ tracked' \in BOOLEAN
      /\ TimerTracked' /\ FramesOfStreams' /\ OpenIsOpen'
      /\ Live' # {} \/ timers' > 0
      /\ Cardinality(Live') + timers' = Cardinality(Live) + timers + 1
  <2>1. token \in BOOLEAN /\ conns \in [Conns -> Connection] /\ timers \in Nat /\ tracked \in BOOLEAN
    BY <1>1 DEF TypeOK
  <2>2. tracked => timers > 0
    BY <1>1 DEF TimerTracked
  <2> QED BY ONLY <1>1, <1>2, <2>1, <2>2, ConnectStep
<1>4. TypeOK'
  BY <1>1, <1>2, <1>3, StreamAssumption DEF TypeOK, Mount
<1>5. BoundedConnections'
  BY <1>1, <1>2, <1>3, LiveFinite DEF BoundedConnections, TypeOK
<1> QED BY <1>3, <1>4, <1>5 DEF StreamInv, NeverSilent

LEMMA UnmountInv == StreamInv /\ Unmount => StreamInv'
<1> SUFFICES ASSUME StreamInv, Unmount PROVE StreamInv'
  OBVIOUS
<1>1. TypeOK /\ TimerTracked /\ FramesOfStreams /\ BoundedConnections
  BY DEF StreamInv
<1>2. /\ conns' = Aborted /\ Aborted \in [Conns -> Connection]
      /\ \A c \in Conns : /\ Aborted[c].phase = conns[c].phase
                          /\ Aborted[c].inbox \in {conns[c].inbox, << >>}
  BY <1>1, AbortedTable DEF Unmount
<1>3. Live' = Live /\ FramesOfStreams'
  BY <1>1, <1>2 DEF Live, FramesOfStreams
<1>4. timers' \in Nat /\ timers' <= timers /\ tracked' = FALSE
  BY <1>1 DEF Unmount, TypeOK, TimerTracked
<1>5. TypeOK'
  BY <1>1, <1>2, <1>4 DEF TypeOK, Unmount
<1>6. BoundedConnections'
  BY <1>1, <1>3, <1>4, LiveFinite DEF BoundedConnections, TypeOK, Unmount
<1> QED BY <1>3, <1>4, <1>5, <1>6 DEF StreamInv, TimerTracked, NeverSilent, OpenIsOpen, Unmount

LEMMA SetTokenInv == ASSUME NEW signed \in BOOLEAN PROVE StreamInv /\ SetToken(signed) => StreamInv'
<1> SUFFICES ASSUME StreamInv, SetToken(signed) PROVE StreamInv'
  OBVIOUS
<1>1. /\ TypeOK /\ FramesOfStreams /\ OpenIsOpen /\ TimerTracked
      /\ BoundedConnections
  BY DEF StreamInv
<1>2. CASE started
  <2>1. Connect(signed, Aborted, timers, tracked) /\ calls' = calls + 1 /\ calls < MaxCalls
    BY <1>2 DEF SetToken
  <2>2. /\ Aborted \in [Conns -> Connection]
        /\ \A c \in Conns : /\ Aborted[c].phase = conns[c].phase
                            /\ Aborted[c].inbox \in {conns[c].inbox, << >>}
    BY <1>1, AbortedTable
  <2>3. /\ status' \in {"idle", "connecting", "open", "closed"}
        /\ controller' \in SUBSET Conns
        /\ conns' \in [Conns -> Connection]
        /\ timers' \in Nat /\ tracked' \in BOOLEAN
        /\ TimerTracked' /\ FramesOfStreams' /\ OpenIsOpen'
        /\ Live' # {} \/ timers' > 0
        /\ Cardinality(Live') + timers' = Cardinality(Live) + timers + 1
    <3>1. timers \in Nat /\ tracked \in BOOLEAN
      BY <1>1 DEF TypeOK
    <3>2. tracked => timers > 0
      BY <1>1 DEF TimerTracked
    <3> QED BY ONLY <1>1, <2>1, <2>2, <3>1, <3>2, ConnectStep
  <2>4. TypeOK'
    BY <1>1, <2>1, <2>3, StreamAssumption DEF TypeOK, SetToken
  <2>5. BoundedConnections'
    BY <1>1, <2>1, <2>3, LiveFinite DEF BoundedConnections, TypeOK
  <2> QED BY <2>3, <2>4, <2>5 DEF StreamInv, NeverSilent
<1>3. CASE ~started
  <2>1. UNCHANGED <<started, published, handled, status, controller, conns, timers, tracked, calls>>
    BY <1>3 DEF SetToken
  <2>2. token' \in BOOLEAN
    BY DEF SetToken
  <2> QED BY <2>1, <2>2 DEF StreamInv, TypeOK, TimerTracked, FramesOfStreams, BoundedConnections,
                           NeverSilent, OpenIsOpen, Live
<1> QED BY <1>2, <1>3

LEMMA FireTimerInv == StreamInv /\ FireTimer => StreamInv'
<1> SUFFICES ASSUME StreamInv, FireTimer PROVE StreamInv'
  OBVIOUS
<1>1. /\ TypeOK /\ FramesOfStreams /\ OpenIsOpen /\ TimerTracked
      /\ BoundedConnections
  BY DEF StreamInv
<1>2. timers \in Nat /\ timers > 0 /\ timers - 1 \in Nat /\ token \in BOOLEAN
  BY <1>1 DEF TypeOK, FireTimer
<1>3. UNCHANGED <<token, started, published, handled, calls>>
  BY DEF FireTimer
<1>4. PICK kept \in BOOLEAN :
        /\ kept => timers > 1
        /\ IF started THEN Connect(token, conns, timers - 1, kept)
           ELSE /\ timers' = timers - 1 /\ tracked' = kept
                /\ UNCHANGED <<status, controller, conns>>
  BY DEF FireTimer
<1>5. CASE started
  <2>1. Connect(token, conns, timers - 1, kept)
    BY <1>4, <1>5
  <2>2. /\ status' \in {"idle", "connecting", "open", "closed"}
        /\ controller' \in SUBSET Conns
        /\ conns' \in [Conns -> Connection]
        /\ timers' \in Nat /\ tracked' \in BOOLEAN
        /\ TimerTracked' /\ FramesOfStreams' /\ OpenIsOpen'
        /\ Live' # {} \/ timers' > 0
        /\ Cardinality(Live') + timers' = Cardinality(Live) + (timers - 1) + 1
    <3>1. conns \in [Conns -> Connection]
      BY <1>1 DEF TypeOK
    <3>2. kept => timers - 1 > 0
      BY <1>2, <1>4
    <3> QED BY ONLY <1>1, <1>2, <1>4, <2>1, <3>1, <3>2, ConnectStep
  <2>3. TypeOK'
    BY <1>1, <1>3, <2>2 DEF TypeOK
  <2>4. BoundedConnections'
    BY <1>1, <1>2, <1>3, <2>2, LiveFinite DEF BoundedConnections, TypeOK
  <2> QED BY <2>2, <2>3, <2>4 DEF StreamInv, NeverSilent
<1>6. CASE ~started
  <2>1. timers' = timers - 1 /\ tracked' = kept /\ UNCHANGED <<status, controller, conns>>
    BY <1>4, <1>6
  <2>2. Live' = Live
    BY <2>1 DEF Live
  <2>3. BoundedConnections'
    BY <1>1, <1>2, <1>3, <2>1, <2>2, LiveFinite DEF BoundedConnections, TypeOK
  <2> QED BY <1>1, <1>2, <1>3, <1>4, <1>6, <2>1, <2>3
          DEF StreamInv, TypeOK, TimerTracked, FramesOfStreams, NeverSilent, OpenIsOpen
<1> QED BY <1>5, <1>6

LEMMA FinishInv == ASSUME NEW c \in Conns PROVE StreamInv /\ Finish(c) => StreamInv'
<1> SUFFICES ASSUME StreamInv, Finish(c) PROVE StreamInv'
  OBVIOUS
<1>1. TypeOK /\ FramesOfStreams /\ TimerTracked /\ BoundedConnections
  BY DEF StreamInv
<1>2. c \in Live /\ conns' = [conns EXCEPT ![c] = Free] /\ status' = "closed"
      /\ UNCHANGED <<token, started, controller, published, handled, calls>>
  BY DEF Finish
<1>3. Live' = Live \ {c} /\ conns' \in [Conns -> Connection]
  BY <1>1, <1>2, LiveAfterFinish
<1>4. Cardinality(Live') = Cardinality(Live) - 1
  BY <1>2, <1>3, LiveFinite, FS_RemoveElement
<1>5. /\ timers' \in Nat /\ tracked' \in BOOLEAN /\ TimerTracked'
      /\ timers' <= timers + 1 /\ (started => timers' > 0)
  <2>1. timers \in Nat /\ tracked \in BOOLEAN /\ (tracked => timers > 0)
    BY <1>1 DEF TypeOK, TimerTracked
  <2>2. CASE started
    <3>1. timers' = timers + 1 /\ tracked' = TRUE
      BY <2>2 DEF Finish, ScheduleReconnect
    <3> QED BY <2>1, <3>1 DEF TimerTracked
  <2>3. CASE ~started
    <3>1. timers' = timers /\ tracked' = tracked
      BY <2>3 DEF Finish
    <3> QED BY <2>1, <2>3, <3>1 DEF TimerTracked
  <2> QED BY <2>2, <2>3
<1>6. TypeOK'
  BY <1>1, <1>2, <1>3, <1>5 DEF TypeOK
<1>7. FramesOfStreams'
  BY <1>1, <1>2 DEF FramesOfStreams, Free, TypeOK
<1>8. BoundedConnections'
  BY <1>1, <1>2, <1>4, <1>5, LiveFinite DEF BoundedConnections, TypeOK
<1> QED BY <1>2, <1>5, <1>6, <1>7, <1>8 DEF StreamInv, NeverSilent, OpenIsOpen

(* The steps that only move frames keep connections, timers and calls. *)
LEMMA FramesInv ==
  ASSUME StreamInv, Live' = Live, conns' \in [Conns -> Connection], FramesOfStreams',
         UNCHANGED <<token, started, controller, timers, tracked, calls>>,
         status' \in {status, "open"},
         published' \in 0 .. MaxEvents, handled' \in Seq(1 .. MaxEvents),
         OpenIsOpen'
  PROVE  StreamInv'
  BY DEF StreamInv, TypeOK, TimerTracked, BoundedConnections, NeverSilent

LEMMA AcceptInv == ASSUME NEW c \in Conns PROVE StreamInv /\ Accept(c) => StreamInv'
<1> SUFFICES ASSUME StreamInv, Accept(c) PROVE StreamInv'
  OBVIOUS
<1>1. TypeOK /\ FramesOfStreams /\ OpenIsOpen /\ conns[c] \in Connection
  BY DEF StreamInv, TypeOK
<1>2. /\ conns[c].phase = "fetching"
      /\ conns' = [conns EXCEPT ![c].phase = "streaming", ![c].inbox = <<Connected>>]
      /\ UNCHANGED <<token, started, status, controller, timers, tracked, published, handled, calls>>
  BY DEF Accept
<1>3. <<Connected>> \in Seq(0 .. MaxEvents)
  BY StreamAssumption DEF Connected
<1>4. conns' \in [Conns -> Connection]
  BY <1>1, <1>2, <1>3 DEF TypeOK, Connection
<1>5. conns'[c].phase = "streaming" /\ \A d \in Conns \ {c} : conns'[d] = conns[d]
  BY <1>1, <1>2 DEF TypeOK, Connection
<1>6. Live' = Live /\ FramesOfStreams' /\ OpenIsOpen'
  BY <1>1, <1>2, <1>5 DEF Live, FramesOfStreams, OpenIsOpen
<1> QED BY <1>1, <1>2, <1>4, <1>6, FramesInv DEF TypeOK

LEMMA PublishInv == StreamInv /\ Publish => StreamInv'
<1> SUFFICES ASSUME StreamInv, Publish PROVE StreamInv'
  OBVIOUS
<1>1. TypeOK /\ FramesOfStreams /\ OpenIsOpen
  BY DEF StreamInv
<1>2. /\ published \in Nat /\ published < MaxEvents /\ published' = published + 1
      /\ UNCHANGED <<token, started, status, controller, timers, tracked, handled, calls>>
  BY <1>1 DEF Publish, TypeOK
<1>3. ASSUME NEW c \in Conns
      PROVE  /\ conns'[c] \in Connection /\ conns'[c].phase = conns[c].phase
             /\ conns'[c].inbox = conns[c].inbox \/ conns[c].phase = "streaming"
  <2>1. conns[c] \in Connection
    BY <1>1 DEF TypeOK
  <2>2. CASE c \in Listening
    <3>1. conns'[c] = [conns[c] EXCEPT !.inbox = Append(@, published + 1)]
      BY <2>2 DEF Publish
    <3>2. Append(conns[c].inbox, published + 1) \in Seq(0 .. MaxEvents)
      BY <1>2, <2>1, StreamAssumption DEF Connection
    <3> QED BY <2>1, <2>2, <3>1, <3>2 DEF Connection, Listening
  <2>3. CASE c \notin Listening
    BY <2>1, <2>3 DEF Publish
  <2> QED BY <2>2, <2>3
<1>4. conns' \in [Conns -> Connection]
  BY <1>3 DEF Publish
<1>5. Live' = Live /\ FramesOfStreams' /\ OpenIsOpen'
  BY <1>1, <1>2, <1>3 DEF Live, FramesOfStreams, OpenIsOpen
<1>6. published' \in 0 .. MaxEvents
  BY <1>2, StreamAssumption
<1> QED BY <1>1, <1>2, <1>4, <1>5, <1>6, FramesInv DEF TypeOK

(* Taking the first element off a queue, and adding one to a history. *)
LEMMA HeadTailTypes ==
  ASSUME NEW S, NEW q \in Seq(S), q # << >>
  PROVE  Head(q) \in S /\ Tail(q) \in Seq(S)
  OBVIOUS

LEMMA AppendType ==
  ASSUME NEW S, NEW q \in Seq(S), NEW e \in S
  PROVE  Append(q, e) \in Seq(S)
  OBVIOUS

LEMMA ReceiveInv == ASSUME NEW c \in Conns PROVE StreamInv /\ Receive(c) => StreamInv'
<1> SUFFICES ASSUME StreamInv, Receive(c) PROVE StreamInv'
  OBVIOUS
<1>1. TypeOK /\ FramesOfStreams /\ conns[c] \in Connection
  BY DEF StreamInv, TypeOK
<1>2. /\ conns[c].inbox # << >> /\ conns' = [conns EXCEPT ![c].inbox = Tail(@)]
      /\ status' = "open"
      /\ handled' = IF started /\ Head(conns[c].inbox) # Connected
                    THEN Append(handled, Head(conns[c].inbox)) ELSE handled
      /\ UNCHANGED <<token, started, controller, timers, tracked, published, calls>>
  BY DEF Receive
<1>3. conns[c].inbox \in Seq(0 .. MaxEvents)
  BY <1>1 DEF Connection
<1>4. Head(conns[c].inbox) \in 0 .. MaxEvents /\ Tail(conns[c].inbox) \in Seq(0 .. MaxEvents)
  <2>1. conns[c].inbox # << >>
    BY <1>2
  <2> QED BY <1>3, <2>1, HeadTailTypes
<1>5. conns' \in [Conns -> Connection]
  BY <1>1, <1>2, <1>4 DEF TypeOK, Connection
<1>6. \A d \in Conns : /\ conns'[d].phase = conns[d].phase
                        /\ d # c => conns'[d] = conns[d]
  BY <1>1, <1>2 DEF TypeOK, Connection
<1>7. conns[c].phase = "streaming"
  BY <1>1, <1>2 DEF FramesOfStreams
<1>8. Live' = Live /\ FramesOfStreams' /\ OpenIsOpen'
  BY <1>1, <1>2, <1>6, <1>7 DEF Live, FramesOfStreams, OpenIsOpen
<1>9. handled' \in Seq(1 .. MaxEvents)
  <2>1. handled \in Seq(1 .. MaxEvents)
    BY <1>1 DEF TypeOK
  <2>2. Head(conns[c].inbox) # Connected => Head(conns[c].inbox) \in 1 .. MaxEvents
    BY <1>4, StreamAssumption DEF Connected
  <2>3. CASE started /\ Head(conns[c].inbox) # Connected
    <3>1. Append(handled, Head(conns[c].inbox)) \in Seq(1 .. MaxEvents)
      BY <2>1, <2>2, <2>3, AppendType
    <3> QED BY <1>2, <2>3, <3>1
  <2>4. CASE ~(started /\ Head(conns[c].inbox) # Connected)
    BY <1>2, <2>1, <2>4
  <2> QED BY <2>3, <2>4
<1>10. published' \in 0 .. MaxEvents
  BY <1>1, <1>2 DEF TypeOK
<1> QED BY <1>2, <1>5, <1>8, <1>9, <1>10, FramesInv

LEMMA StutterInv == StreamInv /\ UNCHANGED streamVars => StreamInv'
  BY DEF StreamInv, TypeOK, TimerTracked, FramesOfStreams, BoundedConnections, NeverSilent,
         OpenIsOpen, Live, streamVars

-----------------------------------------------------------------------------

THEOREM Invariance == Spec => []StreamInv
<1>1. StreamInv /\ [Next]_streamVars => StreamInv'
  BY MountInv, UnmountInv, SetTokenInv, FireTimerInv, FinishInv, AcceptInv, PublishInv,
     ReceiveInv, StutterInv DEF Next, Client
<1> QED BY InitInv, <1>1, PTL DEF Spec

(* The variables of the event stream keep their types. *)
THEOREM TypeCorrect == Spec => []TypeOK
<1>1. StreamInv => TypeOK
  BY DEF StreamInv
<1> QED BY Invariance, <1>1, PTL

(* Connections and pending timers together never outnumber the calls of
   start() and restart(), however often connections break. *)
THEOREM ConnectionsAreBounded == Spec => []BoundedConnections
<1>1. StreamInv => BoundedConnections
  BY DEF StreamInv
<1> QED BY Invariance, <1>1, PTL

(* A mounted provider always has a connection or a timer that will make one. *)
THEOREM ClientIsNeverSilent == Spec => []NeverSilent
<1>1. StreamInv => NeverSilent
  BY DEF StreamInv
<1> QED BY Invariance, <1>1, PTL

(* The status says open only while some response is being read. *)
THEOREM OpenMeansOpen == Spec => []OpenIsOpen
<1>1. StreamInv => OpenIsOpen
  BY DEF StreamInv
<1> QED BY Invariance, <1>1, PTL

-----------------------------------------------------------------------------
(* The order of delivery *)

Increasing(s) == \A i, k \in DOMAIN s : i < k => s[i] < s[k]

UpTo(s, n) == \A i \in DOMAIN s : s[i] <= n

(* Every event that was handled was published before those that wait in q. *)
Behind(s, q) == \A i \in DOMAIN s, k \in DOMAIN q : q[k] # Connected => s[i] < q[k]

(* The frames that wait are in order; before a second start or restart the
   events handled are, and they come before all that wait. *)
FramesInOrder == \A c \in Conns : Increasing(conns[c].inbox) /\ UpTo(conns[c].inbox, published)

HandledInOrder ==
  /\ UpTo(handled, published)
  /\ calls <= 1 => /\ Increasing(handled)
                   /\ \A c \in Conns : Behind(handled, conns[c].inbox)

OrderInv == FramesInOrder /\ HandledInOrder

LEMMA EmptyIsInOrder ==
  ASSUME NEW n, NEW s
  PROVE  Increasing(<< >>) /\ UpTo(<< >>, n) /\ Behind(s, << >>)
BY DEF Increasing, UpTo, Behind

LEMMA TailInOrder ==
  ASSUME NEW q \in Seq(Nat), q # << >>, NEW n \in Nat, NEW s, Increasing(q), UpTo(q, n), Behind(s, q)
  PROVE  /\ Increasing(Tail(q)) /\ UpTo(Tail(q), n) /\ Behind(s, Tail(q))
         /\ Head(q) <= n
         /\ \A k \in DOMAIN Tail(q) : Head(q) < Tail(q)[k]
         /\ Head(q) # Connected => \A i \in DOMAIN s : s[i] < Head(q)
<1>1. Head(q) = q[1] /\ 1 \in DOMAIN q
  OBVIOUS
<1>2. \A k \in DOMAIN Tail(q) : k \in Nat /\ k > 0 /\ k + 1 \in DOMAIN q /\ Tail(q)[k] = q[k + 1]
  OBVIOUS
<1>3. \A i, k \in DOMAIN Tail(q) : i < k => i + 1 < k + 1
  BY <1>2
<1>4. \A k \in DOMAIN Tail(q) : 1 < k + 1
  BY <1>2
<1> QED BY <1>1, <1>2, <1>3, <1>4 DEF Increasing, UpTo, Behind

LEMMA AppendInOrder ==
  ASSUME NEW q \in Seq(Nat), NEW e \in Nat, Increasing(q), \A i \in DOMAIN q : q[i] < e
  PROVE  Increasing(Append(q, e))
<1> DEFINE longer == Append(q, e)  n == Len(q) + 1
<1>1. /\ DOMAIN longer = 1 .. n /\ DOMAIN q = 1 .. Len(q) /\ Len(q) \in Nat
      /\ longer[n] = e /\ \A i \in 1 .. Len(q) : longer[i] = q[i]
  OBVIOUS
<1> SUFFICES ASSUME NEW i \in 1 .. n, NEW k \in 1 .. n, i < k PROVE longer[i] < longer[k]
  BY <1>1 DEF Increasing
<1>2. i \in 1 .. Len(q)
  BY <1>1
<1>3. CASE k = n
  BY <1>1, <1>2, <1>3
<1>4. CASE k # n
  <2>1. k \in 1 .. Len(q)
    BY <1>1, <1>4
  <2> HIDE DEF longer
  <2> QED BY <1>1, <1>2, <2>1 DEF Increasing
<1> QED BY <1>3, <1>4

(* What sequences of events hold as members and where. *)
LEMMA FrameTypes ==
  ASSUME TypeOK
  PROVE  /\ \A c \in Conns : /\ conns[c] \in Connection /\ conns[c].inbox \in Seq(Nat)
                             /\ \A i \in DOMAIN conns[c].inbox : conns[c].inbox[i] \in Nat
         /\ handled \in Seq(Nat) /\ \A i \in DOMAIN handled : handled[i] \in Nat
         /\ published \in Nat /\ calls \in Nat
<1>1. 0 .. MaxEvents \subseteq Nat /\ 1 .. MaxEvents \subseteq Nat
  BY StreamAssumption
<1>2. ASSUME NEW S, S \subseteq Nat, NEW q \in Seq(S)
      PROVE  q \in Seq(Nat) /\ \A i \in DOMAIN q : q[i] \in Nat
  <2>1. /\ Len(q) \in Nat /\ DOMAIN q = 1 .. Len(q) /\ q = [i \in 1 .. Len(q) |-> q[i]]
        /\ \A i \in 1 .. Len(q) : q[i] \in S
    BY <1>2, ElementOfSeq, LenProperties
  <2>2. \A i \in 1 .. Len(q) : q[i] \in Nat
    BY <1>2, <2>1
  <2> QED BY <2>1, <2>2, IsASeq
<1>3. handled \in Seq(1 .. MaxEvents) /\ published \in 0 .. MaxEvents /\ calls \in 0 .. MaxCalls
  BY DEF TypeOK
<1>4. published \in Nat /\ calls \in Nat
  BY <1>3, StreamAssumption
<1>5. ASSUME NEW c \in Conns PROVE conns[c] \in Connection /\ conns[c].inbox \in Seq(0 .. MaxEvents)
  BY DEF TypeOK, Connection
<1> QED BY <1>1, <1>2, <1>3, <1>4, <1>5

(* Inboxes that stay or are emptied, while nothing is handled. *)
LEMMA EmptyingKeepsOrder ==
  ASSUME OrderInv, calls \in Nat, calls' \in Nat, calls' >= calls,
         published' = published, handled' = handled,
         \A c \in Conns : conns'[c].inbox \in {conns[c].inbox, << >>}
  PROVE  OrderInv'
<1>1. FramesInOrder'
  BY EmptyIsInOrder DEF OrderInv, FramesInOrder
<1>2. calls' <= 1 => calls <= 1
  OBVIOUS
<1>3. HandledInOrder'
  BY <1>2, EmptyIsInOrder DEF OrderInv, HandledInOrder
<1> QED BY <1>1, <1>3 DEF OrderInv

LEMMA ConnectInboxes ==
  ASSUME TypeOK, NEW signed, NEW table \in [Conns -> Connection], NEW pending, NEW kept,
         \A c \in Conns : table[c].inbox \in {conns[c].inbox, << >>},
         Connect(signed, table, pending, kept)
  PROVE  \A c \in Conns : conns'[c].inbox \in {conns[c].inbox, << >>}
<1>1. CASE signed
  <2>1. PICK c \in Conns : conns' = [table EXCEPT ![c].phase = "fetching"]
    BY <1>1 DEF Connect
  <2> QED BY <2>1 DEF Connection
<1>2. CASE ~signed
  BY <1>2 DEF Connect
<1> QED BY <1>1, <1>2

LEMMA QuietOrder ==
  ASSUME StreamInv, OrderInv,
         \/ Mount \/ Unmount \/ FireTimer
         \/ \E signed \in BOOLEAN : SetToken(signed)
         \/ \E c \in Conns : Finish(c)
  PROVE  OrderInv'
<1>1. TypeOK /\ calls \in Nat
  BY FrameTypes DEF StreamInv
<1>2. /\ Aborted \in [Conns -> Connection] /\ conns \in [Conns -> Connection]
      /\ \A c \in Conns : Aborted[c].inbox \in {conns[c].inbox, << >>}
  BY <1>1, AbortedTable DEF TypeOK
<1>3. published' = published /\ handled' = handled /\ calls' \in {calls, calls + 1}
  BY DEF Mount, Unmount, FireTimer, SetToken, Finish
<1>4. \A c \in Conns : conns'[c].inbox \in {conns[c].inbox, << >>}
  <2>1. CASE Mount
    BY <1>1, <1>2, <2>1, ConnectInboxes DEF Mount
  <2>2. CASE Unmount
    BY <1>2, <2>2 DEF Unmount
  <2>3. CASE FireTimer
    <3>1. conns' = conns \/ \E kept : Connect(token, conns, timers - 1, kept)
      BY <2>3 DEF FireTimer
    <3> QED BY <1>1, <1>2, <3>1, ConnectInboxes
  <2>4. ASSUME NEW signed \in BOOLEAN, SetToken(signed)
        PROVE  \A c \in Conns : conns'[c].inbox \in {conns[c].inbox, << >>}
    <3>1. conns' = conns \/ Connect(signed, Aborted, timers, tracked)
      BY <2>4 DEF SetToken
    <3> QED BY <1>1, <1>2, <3>1, ConnectInboxes
  <2>5. ASSUME NEW c \in Conns, Finish(c)
        PROVE  \A d \in Conns : conns'[d].inbox \in {conns[d].inbox, << >>}
    BY <1>2, <2>5 DEF Finish, Free
  <2> QED BY <2>1, <2>2, <2>3, <2>4, <2>5
<1> QED BY <1>1, <1>3, <1>4, EmptyingKeepsOrder

LEMMA AcceptOrder ==
  ASSUME StreamInv, OrderInv, NEW c \in Conns, Accept(c)
  PROVE  OrderInv'
<1>1. /\ TypeOK /\ published \in Nat /\ conns \in [Conns -> Connection]
      /\ UNCHANGED <<published, handled, calls>>
  BY FrameTypes DEF StreamInv, TypeOK, Accept
<1>2. conns'[c].inbox = <<Connected>> /\ \A d \in Conns \ {c} : conns'[d] = conns[d]
  BY <1>1 DEF Accept, Connection
<1>3. Increasing(<<Connected>>) /\ UpTo(<<Connected>>, published) /\ Behind(handled, <<Connected>>)
  BY <1>1 DEF Increasing, UpTo, Behind, Connected
<1> QED BY <1>1, <1>2, <1>3 DEF OrderInv, FramesInOrder, HandledInOrder

LEMMA PublishOrder ==
  ASSUME StreamInv, OrderInv, Publish
  PROVE  OrderInv'
<1>1. /\ TypeOK /\ published \in Nat /\ published' = published + 1
      /\ handled' = handled /\ calls' = calls
  BY FrameTypes DEF StreamInv, Publish
<1> DEFINE e == published + 1
<1>2. ASSUME NEW c \in Conns
      PROVE  /\ Increasing(conns'[c].inbox) /\ UpTo(conns'[c].inbox, published')
             /\ Behind(handled, conns[c].inbox) => Behind(handled, conns'[c].inbox)
  <2>1. /\ conns[c] \in Connection /\ conns[c].inbox \in Seq(Nat)
        /\ \A i \in DOMAIN conns[c].inbox : conns[c].inbox[i] \in Nat
        /\ \A i \in DOMAIN handled : handled[i] \in Nat
    BY <1>1, FrameTypes
  <2>2. Increasing(conns[c].inbox) /\ UpTo(conns[c].inbox, published) /\ UpTo(handled, published)
    BY DEF OrderInv, FramesInOrder, HandledInOrder
  <2>3. CASE c \in Listening
    <3> DEFINE q == conns[c].inbox
    <3>1. conns'[c].inbox = Append(q, e)
      <4>1. conns'[c] = [conns[c] EXCEPT !.inbox = Append(@, published + 1)]
        BY <2>3 DEF Publish
      <4> QED BY <2>1, <4>1 DEF Connection
    <3>2. \A i \in DOMAIN q : q[i] < e
      BY <1>1, <2>1, <2>2 DEF UpTo
    <3>3. \A k \in DOMAIN Append(q, e) : Append(q, e)[k] = e \/ (k \in DOMAIN q /\ Append(q, e)[k] = q[k])
      BY <1>1, <2>1
    <3>4. \A i \in DOMAIN handled : handled[i] < e
      BY <1>1, <2>1, <2>2 DEF UpTo
    <3>5. e \in Nat /\ e <= published'
      BY <1>1
    <3>6. Increasing(Append(q, e))
      BY <2>1, <2>2, <3>2, <3>5, AppendInOrder
    <3>7. UpTo(Append(q, e), published')
      BY <1>1, <2>1, <3>2, <3>3, <3>5 DEF UpTo
    <3>8. Behind(handled, q) => Behind(handled, Append(q, e))
      BY <3>3, <3>4 DEF Behind
    <3> QED BY <3>1, <3>6, <3>7, <3>8
  <2>4. CASE c \notin Listening
    <3>1. conns'[c] = conns[c]
      BY <2>4 DEF Publish
    <3>2. UpTo(conns[c].inbox, published')
      BY <1>1, <2>1, <2>2 DEF UpTo
    <3> QED BY <2>2, <3>1, <3>2
  <2> QED BY <2>3, <2>4
<1>3. UpTo(handled, published')
  <2>1. \A i \in DOMAIN handled : handled[i] \in Nat
    BY <1>1, FrameTypes
  <2> QED BY <1>1, <2>1 DEF OrderInv, HandledInOrder, UpTo
<1> QED BY <1>1, <1>2, <1>3 DEF OrderInv, FramesInOrder, HandledInOrder

(* Before a second start or restart there is one connection at most. *)
LEMMA OneConnection ==
  ASSUME StreamInv, calls <= 1, NEW c \in Live, NEW d \in Live
  PROVE  c = d
<1>1. Cardinality(Live) <= 1 /\ timers \in Nat
  BY LiveFinite, FrameTypes DEF StreamInv, BoundedConnections, TypeOK
<1>2. ASSUME c # d PROVE FALSE
  <2>1. {c, d} \subseteq Live /\ Cardinality({c, d}) = 2
    <3>1. IsFiniteSet({c}) /\ Cardinality({c}) = 1 /\ d \notin {c}
      BY <1>2, FS_Singleton
    <3>2. Cardinality({c} \cup {d}) = 2
      BY <3>1, FS_AddElement
    <3>3. {c, d} = {c} \cup {d}
      OBVIOUS
    <3> QED BY <3>2, <3>3
  <2>2. 2 <= Cardinality(Live)
    BY <2>1, LiveFinite, FS_Subset
  <2> QED BY <1>1, <2>2, LiveFinite
<1> QED BY <1>2

LEMMA ReceiveOrder ==
  ASSUME StreamInv, OrderInv, NEW c \in Conns, Receive(c)
  PROVE  OrderInv'
<1> DEFINE q == conns[c].inbox
<1>1. /\ TypeOK /\ published \in Nat /\ calls \in Nat /\ conns \in [Conns -> Connection]
      /\ handled \in Seq(Nat) /\ \A i \in DOMAIN handled : handled[i] \in Nat
      /\ q \in Seq(Nat) /\ \A i \in DOMAIN q : q[i] \in Nat
      /\ q # << >>
      /\ published' = published /\ calls' = calls
  BY FrameTypes DEF StreamInv, TypeOK, Receive
<1>2. conns'[c].inbox = Tail(q) /\ \A d \in Conns \ {c} : conns'[d] = conns[d]
  BY <1>1 DEF Receive, Connection
<1>3. /\ Increasing(q) /\ UpTo(q, published) /\ UpTo(handled, published)
      /\ \A d \in Conns : Increasing(conns[d].inbox) /\ UpTo(conns[d].inbox, published)
  BY DEF OrderInv, FramesInOrder, HandledInOrder
<1>4. Increasing(Tail(q)) /\ UpTo(Tail(q), published) /\ Head(q) <= published /\ Head(q) \in Nat
  <2>1. Behind(<< >>, q)
    BY DEF Behind
  <2>2. Head(q) \in Nat
    BY <1>1
  <2> QED BY <1>1, <1>3, <2>1, <2>2, TailInOrder
<1>5. FramesInOrder'
  <2>1. \A d \in Conns : conns'[d].inbox = conns[d].inbox \/ conns'[d].inbox = Tail(q)
    BY <1>2
  <2> HIDE DEF q
  <2> QED BY <1>1, <1>3, <1>4, <2>1 DEF FramesInOrder
<1>6. CASE handled' = handled
  <2>1. calls <= 1 => Behind(handled, Tail(q))
    <3> SUFFICES ASSUME calls <= 1 PROVE Behind(handled, Tail(q))
      OBVIOUS
    <3>1. Behind(handled, q)
      BY DEF OrderInv, HandledInOrder
    <3> QED BY <1>1, <1>3, <3>1, TailInOrder
  <2> HIDE DEF q
  <2>2. HandledInOrder'
    BY <1>1, <1>2, <1>6, <2>1 DEF OrderInv, HandledInOrder
  <2> QED BY <1>5, <2>2 DEF OrderInv
<1>7. CASE handled' = Append(handled, Head(q)) /\ Head(q) # Connected
  <2> DEFINE longer == Append(handled, Head(q))
  <2>1. \A i \in DOMAIN longer : longer[i] = Head(q) \/ (i \in DOMAIN handled /\ longer[i] = handled[i])
    BY <1>1
  <2>2. UpTo(longer, published)
    BY <1>3, <1>4, <2>1 DEF UpTo
  <2>3. ASSUME calls <= 1
        PROVE  Increasing(longer) /\ \A d \in Conns : Behind(longer, conns'[d].inbox)
    <3>1. Increasing(handled) /\ \A d \in Conns : Behind(handled, conns[d].inbox)
      BY <2>3 DEF OrderInv, HandledInOrder
    <3>2. /\ Behind(handled, Tail(q)) /\ \A i \in DOMAIN handled : handled[i] < Head(q)
          /\ \A k \in DOMAIN Tail(q) : Head(q) < Tail(q)[k]
      <4>1. Behind(handled, q)
        BY <3>1
      <4> QED BY <1>1, <1>3, <1>7, <4>1, TailInOrder
    <3>3. Increasing(longer)
      BY <1>1, <1>4, <3>1, <3>2, AppendInOrder
    <3>4. Behind(longer, Tail(q))
      BY <2>1, <3>2 DEF Behind
    <3>5. ASSUME NEW d \in Conns \ {c} PROVE conns[d].inbox = << >>
      <4>1. c \in Live
        BY <1>1 DEF StreamInv, FramesOfStreams, Live
      <4>2. d \notin Live
        BY <2>3, <4>1, <3>5, OneConnection
      <4> QED BY <4>2 DEF StreamInv, FramesOfStreams, Live
    <3>6. ASSUME NEW d \in Conns PROVE Behind(longer, conns'[d].inbox)
      <4>1. CASE d = c
        BY <1>2, <3>4, <4>1
      <4>2. CASE d # c
        <5>1. conns'[d].inbox = << >>
          BY <1>2, <3>5, <4>2
        <5> QED BY <5>1, EmptyIsInOrder
      <4> QED BY <4>1, <4>2
    <3> QED BY <3>3, <3>6
  <2> HIDE DEF longer
  <2>4. handled' = longer
    BY <1>7 DEF longer
  <2>5. HandledInOrder'
    BY <1>1, <2>2, <2>3, <2>4 DEF HandledInOrder
  <2> QED BY <1>5, <2>5 DEF OrderInv
<1> QED BY <1>6, <1>7 DEF Receive

(* Until a second start or restart the listeners get the events in the order
   of their publication and none twice, whatever connections break
   (Receive, connect and scheduleReconnect). *)
THEOREM EventsInOrder == Spec => []OrderedDelivery
<1>1. Init => OrderInv
  <2> SUFFICES ASSUME Init PROVE OrderInv
    OBVIOUS
  <2>1. handled = << >> /\ \A c \in Conns : conns[c].inbox = << >>
    BY DEF Init, Free
  <2> QED BY <2>1, EmptyIsInOrder DEF OrderInv, FramesInOrder, HandledInOrder, UpTo, Behind
<1>2. StreamInv /\ OrderInv /\ [Next]_streamVars => OrderInv'
  <2>1. OrderInv /\ UNCHANGED streamVars => OrderInv'
    BY DEF OrderInv, FramesInOrder, HandledInOrder, streamVars
  <2> QED BY <2>1, QuietOrder, AcceptOrder, PublishOrder, ReceiveOrder DEF Next, Client
<1>3. OrderInv => OrderedDelivery
  BY DEF OrderInv, HandledInOrder, OrderedDelivery, Increasing
<1> QED BY Invariance, <1>1, <1>2, <1>3, PTL DEF Spec

-----------------------------------------------------------------------------
(* The session: what a tab's record is *)

Step == {"none", "need", "sent", "renew", "again"}
At == {"none", "sent", "checked", "ok", "empty", "refused", "down"}
Call == [step : Step, token : Nat, left : Nat]
Kind == {"none", "refresh", "session", "logout", "login", "register"}
AuthRequest == [kind : Kind, at : At, jar : Nat, got : Nat]
Mounting == {"none", "fresh", "me", "had", "done"}
TabRecord == [page : Page, mem : Nat, shown : Nat, user : User, mount : Mounting,
              calls : [Why -> Call], req : [Who -> AuthRequest]]

(* Which requests a tab makes under which name, and how far each kind gets. *)
RequestOK(w, q) ==
  q.at # "none" =>
    \/ w # "form" /\ q.kind = "refresh"
    \/ w = "form" /\ q.kind \in Credentials /\ q.at \in {"sent", "ok", "down"}
    \/ w = "form" /\ q.kind \in {"session", "logout"} /\ q.at \in {"sent", "ok"}
RecordOK(r) == r \in TabRecord /\ \A w \in Who : RequestOK(w, r.req[w])

(* Who waits, and for what. *)
Waiting(r) == {y \in Why : r.calls[y].step \in {"need", "renew"}}
WaitsOnFlight(r) == Waiting(r) # {} => r.req["client"].at # "none"
MountSays(r) == /\ r.mount = "me" <=> r.calls["mount"].step # "none"
                /\ r.mount \in {"had", "fresh"} <=> r.req["mount"].at # "none"
ClosedIsIdle(r) == r.page = "closed" => /\ \A y \in Why : r.calls[y].step = "none"
                                        /\ \A w \in Who : r.req[w].at = "none"
TabSound(r) == RecordOK(r) /\ WaitsOnFlight(r) /\ MountSays(r) /\ ClosedIsIdle(r)

SessionTypes == /\ tab \in [Tab -> TabRecord]
                /\ stored \in Nat /\ cached \in BOOLEAN /\ cookie \in Nat /\ minted \in Nat
                /\ live \subseteq Nat \ {None} /\ good \subseteq Nat
                /\ promise \in {"in", "out", "unknown"} /\ events \in Nat

(* A token on its way to the cookie is accepted by the backend, and nobody
   else has it: it is in no other answer, and no request was made with it. *)
UnderWay(t, w) == tab[t].req[w].at # "none"
Pending(q) == q.kind = "session" \/ (q.at = "ok" /\ q.kind # "logout")
TokensOK ==
  /\ cookie <= minted
  /\ \A t \in Tab, w \in Who : UnderWay(t, w) =>
       /\ tab[t].req[w].jar <= minted
       /\ Pending(tab[t].req[w]) => /\ tab[t].req[w].got \in live
                                    /\ tab[t].req[w].got <= minted
                                    /\ tab[t].req[w].got # cookie
  /\ \A t, u \in Tab : \A w, x \in Who :
       UnderWay(t, w) /\ UnderWay(u, x) /\ Pending(tab[t].req[w]) =>
         /\ tab[u].req[x].jar # tab[t].req[w].got
         /\ Pending(tab[u].req[x]) /\ tab[u].req[x].got = tab[t].req[w].got => t = u /\ w = x

(* While the history promises something, at most one auth request is under
   way, and what was promised is still to be had. *)
Unique(f) == \A t, u \in Tab : \A w, x \in Who :
               f[t].req[w].at # "none" /\ f[u].req[x].at # "none" => t = u /\ w = x
StaysIn(q) == /\ q.at \in {"sent", "checked", "down"} => cookie \in live
              /\ q.kind = "refresh" => /\ q.at \notin {"empty", "refused"}
                                       /\ q.at \in {"sent", "checked"} => q.jar = cookie
StaysOut(q) == q.kind = "refresh" => q.jar = None /\ q.at \in {"sent", "empty"}
PromiseKept ==
  promise # "unknown" =>
    /\ Unique(tab)
    /\ promise = "in" => /\ \A t \in Tab, w \in Who : UnderWay(t, w) => StaysIn(tab[t].req[w])
                         /\ (\A t \in Tab, w \in Who : ~UnderWay(t, w)) => cookie \in live
    /\ promise = "out" => /\ \A t \in Tab, w \in Who : UnderWay(t, w) => StaysOut(tab[t].req[w])
                          /\ cookie = None

SessionInv == SessionTypes /\ (\A t \in Tab : TabSound(tab[t])) /\ TokensOK /\ PromiseKept

-----------------------------------------------------------------------------
(* What the operations of a tab do to its record *)

(* A refresh leaves with the cookie of the moment. *)
NewRefresh(jar) == [kind |-> "refresh", at |-> "sent", jar |-> jar, got |-> None]

(* From r to q, requests are left alone, and refreshes that were not under
   way may be made. *)
Asks(r, q, jar) ==
  \A w \in Who : \/ q.req[w] = r.req[w]
                 \/ w # "form" /\ r.req[w].at = "none" /\ q.req[w] = NewRefresh(jar)

(* Who waits in q waited in r already, or a refresh is under way. *)
WaitsAs(r, q, but) == \A y \in Waiting(q) : y \in Waiting(r) \ but \/ q.req["client"].at # "none"

LEMMA RecordsOfTabs ==
  ASSUME NEW r, RecordOK(r)
  PROVE  /\ r.page \in Page /\ r.mem \in Nat /\ r.shown \in Nat /\ r.user \in User /\ r.mount \in Mounting
         /\ r.calls \in [Why -> Call] /\ r.req \in [Who -> AuthRequest]
BY DEF RecordOK, TabRecord

(* One more request, and nothing else. *)
LEMMA RequestMade ==
  ASSUME NEW r, RecordOK(r), NEW w \in Who, NEW kind \in Kind \ {"none"}, NEW jar \in Nat, NEW got \in Nat,
         (w = "form") <=> (kind # "refresh"), NEW q, q = Request(r, w, kind, jar, got)
  PROVE  /\ RecordOK(q)
         /\ q.req[w] = [kind |-> kind, at |-> "sent", jar |-> jar, got |-> got]
         /\ \A x \in Who \ {w} : q.req[x] = r.req[x]
         /\ q.calls = r.calls /\ q.mem = r.mem /\ q.shown = r.shown /\ q.page = r.page
         /\ q.user = r.user /\ q.mount = r.mount
<1> DEFINE new == [kind |-> kind, at |-> "sent", jar |-> jar, got |-> got]
<1>1. new \in AuthRequest /\ RequestOK(w, new)
  BY DEF AuthRequest, At, RequestOK, Kind, Credentials
<1>2. q = [r EXCEPT !.req[w] = new]
  BY DEF Request
<1> HIDE DEF new
<1>3. r \in TabRecord
  BY DEF RecordOK
<1>4. q \in TabRecord /\ q.req = [r.req EXCEPT ![w] = new]
  BY <1>1, <1>2, <1>3 DEF TabRecord
<1>5. /\ q.calls = r.calls /\ q.mem = r.mem /\ q.shown = r.shown /\ q.page = r.page
      /\ q.user = r.user /\ q.mount = r.mount
  BY <1>2, <1>3 DEF TabRecord
<1>6. q.req[w] = new /\ \A x \in Who \ {w} : q.req[x] = r.req[x]
  BY <1>3, <1>4 DEF TabRecord
<1>7. RecordOK(q)
  BY <1>1, <1>4, <1>6 DEF RecordOK
<1> QED BY <1>5, <1>6, <1>7 DEF new

LEMMA RefreshAsked ==
  ASSUME NEW r, RecordOK(r), NEW jar \in Nat, NEW q, q = refreshAccessToken(r, jar)
  PROVE  /\ RecordOK(q) /\ Asks(r, q, jar)
         /\ q.req["client"].at # "none" /\ q.req["mount"] = r.req["mount"] /\ q.req["form"] = r.req["form"]
         /\ q.calls = r.calls /\ q.mem = r.mem /\ q.shown = r.shown /\ q.page = r.page
         /\ q.user = r.user /\ q.mount = r.mount
<1>1. CASE r.req["client"].at # "none"
  BY <1>1 DEF refreshAccessToken, Asks
<1>2. CASE r.req["client"].at = "none"
  <2>1. q = Request(r, "client", "refresh", jar, None)
    BY <1>2 DEF refreshAccessToken
  <2>2. /\ RecordOK(q) /\ q.req["client"] = NewRefresh(jar)
        /\ \A x \in Who \ {"client"} : q.req[x] = r.req[x]
        /\ q.calls = r.calls /\ q.mem = r.mem /\ q.shown = r.shown /\ q.page = r.page
        /\ q.user = r.user /\ q.mount = r.mount
    BY <2>1, RequestMade DEF Who, Kind, None, NewRefresh
  <2>3. q.req["client"].at # "none"
    BY <2>2 DEF NewRefresh
  <2> QED BY <1>2, <2>2, <2>3 DEF Asks, Who
<1> QED BY <1>1, <1>2

(* A call is made: sent with a token, or waiting for the refresh that is
   under way then; with a token no request is made. *)
LEMMA Fetches ==
  ASSUME NEW r, RecordOK(r), NEW why \in Why, NEW jar \in Nat, NEW kept \in Nat,
         NEW q, q = apiFetch(r, why, Browser(jar, kept))
  PROVE  /\ RecordOK(q) /\ Asks(r, q, jar) /\ WaitsAs(r, q, {})
         /\ q.req["mount"] = r.req["mount"] /\ q.req["form"] = r.req["form"]
         /\ \A y \in Why \ {why} : q.calls[y] = r.calls[y]
         /\ q.calls[why].step # "none"
         /\ q.shown = r.shown /\ q.page = r.page /\ q.user = r.user /\ q.mount = r.mount
         /\ r.mem # None => q.req = r.req /\ Waiting(q) = Waiting(r)
<1>1. CASE r.calls[why].step # "none"
  <2>1. q = r
    BY <1>1 DEF apiFetch
  <2> QED BY <1>1, <2>1 DEF Asks, WaitsAs
<1>2. CASE r.calls[why].step = "none"
  <2> DEFINE mine == getAccessToken(r, Browser(jar, kept))
             call == [step |-> IF mine = None THEN "need" ELSE "sent", token |-> mine,
                      left |-> IF why = "app" THEN 1 ELSE Attempts]
             s == [r EXCEPT !.mem = mine, !.calls[why] = call]
  <2>1. q = IF mine = None THEN refreshAccessToken(s, jar) ELSE s
    BY <1>2 DEF apiFetch, Browser
  <2>2. mine \in Nat /\ (r.mem # None => mine # None)
    BY RecordsOfTabs DEF getAccessToken, Browser
  <2>3. call \in Call /\ call.step # "none" /\ (mine # None => call.step = "sent")
    BY <2>2, AuthAssumption DEF Call, Step
  <2> HIDE DEF mine, call
  <2>4. r \in TabRecord
    BY DEF RecordOK
  <2>5. /\ s \in TabRecord /\ s.calls = [r.calls EXCEPT ![why] = call] /\ s.req = r.req
        /\ s.shown = r.shown /\ s.page = r.page /\ s.user = r.user /\ s.mount = r.mount
    BY <2>2, <2>3, <2>4 DEF TabRecord
  <2>6. RecordOK(s)
    BY <2>5 DEF RecordOK
  <2>7. s.calls[why] = call /\ \A y \in Why \ {why} : s.calls[y] = r.calls[y]
    BY <2>4, <2>5 DEF TabRecord
  <2>0. PICK v : v = s
    OBVIOUS
  <2>a. /\ RecordOK(v) /\ v.calls[why] = call /\ v.req = r.req
        /\ \A y \in Why \ {why} : v.calls[y] = r.calls[y]
        /\ v.shown = r.shown /\ v.page = r.page /\ v.user = r.user /\ v.mount = r.mount
    BY <2>0, <2>5, <2>6, <2>7
  <2>b. q = IF mine = None THEN refreshAccessToken(v, jar) ELSE v
    BY <2>0, <2>1
  <2> HIDE DEF s
  <2>8. CASE mine = None
    <3>0. q = refreshAccessToken(v, jar)
      BY <2>b, <2>8
    <3>1. /\ RecordOK(q) /\ Asks(v, q, jar)
          /\ q.req["client"].at # "none" /\ q.req["mount"] = v.req["mount"] /\ q.req["form"] = v.req["form"]
          /\ q.calls = v.calls /\ q.shown = v.shown /\ q.page = v.page
          /\ q.user = v.user /\ q.mount = v.mount
      BY <3>0, <2>a, RefreshAsked
    <3>2. Asks(r, q, jar)
      BY <2>a, <3>1 DEF Asks
    <3> QED BY <2>2, <2>3, <2>a, <2>8, <3>1, <3>2 DEF WaitsAs
  <2>9. CASE mine # None
    <3>1. q = v
      BY <2>b, <2>9
    <3>2. call.step = "sent"
      BY <2>3, <2>9
    <3>3. Waiting(v) = Waiting(r)
      BY <1>2, <2>a, <3>2 DEF Waiting
    <3> QED BY <2>3, <2>a, <3>1, <3>3 DEF Asks, WaitsAs
  <2> QED BY <2>8, <2>9
<1> QED BY <1>1, <1>2

(* Hearing of a token starts a call for the user and no request. *)
LEMMA TokenSet ==
  ASSUME NEW r, RecordOK(r), NEW n \in Nat, NEW jar \in Nat, NEW q, q = setAccessToken(r, n, jar)
  PROVE  /\ RecordOK(q) /\ q.req = r.req /\ Waiting(q) = Waiting(r)
         /\ \A y \in Why \ {"me"} : q.calls[y] = r.calls[y]
         /\ q.page = r.page /\ q.user = r.user /\ q.mount = r.mount
<1> DEFINE s == [r EXCEPT !.mem = n]
           v == [s EXCEPT !.shown = n]
<1>1. r \in TabRecord
  BY DEF RecordOK
<1>2. /\ v \in TabRecord /\ v.req = r.req /\ v.calls = r.calls /\ v.mem = n
      /\ v.page = r.page /\ v.user = r.user /\ v.mount = r.mount
  BY <1>1 DEF TabRecord
<1>3. RecordOK(v)
  BY <1>2 DEF RecordOK
<1>4. q = IF n = None THEN v ELSE apiFetch(v, "me", Browser(jar, n))
  BY DEF setAccessToken, Heard
<1> HIDE DEF v
<1>5. Waiting(v) = Waiting(r)
  BY <1>2 DEF Waiting
<1>6. CASE n = None
  BY <1>2, <1>3, <1>4, <1>5, <1>6
<1>7. CASE n # None
  <2>1. "me" \in Why
    BY DEF Why
  <2>2. q = apiFetch(v, "me", Browser(jar, n))
    BY <1>4, <1>7
  <2>3. /\ RecordOK(q) /\ q.req = v.req /\ Waiting(q) = Waiting(v)
        /\ \A y \in Why \ {"me"} : q.calls[y] = v.calls[y]
        /\ q.page = v.page /\ q.user = v.user /\ q.mount = v.mount
    BY <1>2, <1>3, <1>7, <2>1, <2>2, Fetches
  <2> QED BY <1>2, <1>5, <2>3
<1> QED BY <1>6, <1>7

LEMMA AsksOn ==
  ASSUME NEW r, NEW s, NEW q, NEW jar, Asks(r, s, jar), Asks(s, q, jar)
  PROVE  Asks(r, q, jar)
BY DEF Asks, NewRefresh

(* What was under way stays so. *)
LEMMA AsksKeeps ==
  ASSUME NEW r, NEW q, NEW jar, Asks(r, q, jar), NEW w \in Who, r.req[w].at # "none"
  PROVE  q.req[w] = r.req[w]
BY DEF Asks

Open(r) == r.page # "closed"

(* Calls that were under way end: nobody new waits without a refresh, and the
   provider's first load goes on to its own refresh. *)
LEMMA Ends ==
  ASSUME NEW r, RecordOK(r), MountSays(r), NEW ends \in SUBSET Why,
         \A y \in ends : r.calls[y].step # "none",
         NEW result \in {"ok", "denied", "failed"}, NEW jar \in Nat, NEW kept \in Nat,
         NEW dest \in postSignInDestination,
         NEW q, q = Ended(r, ends, result, Browser(jar, kept), dest)
  PROVE  /\ RecordOK(q) /\ Asks(r, q, jar) /\ MountSays(q) /\ WaitsAs(r, q, ends)
         /\ Open(r) => Open(q)
<1> DEFINE none == [y \in Why |-> IF y \in ends THEN NoCall ELSE r.calls[y]]
           known == IF ends \cap Loads # {} THEN loadUser(r.user, result) ELSE r.user
           s == [r EXCEPT !.calls = none, !.user = known]
           m == Request(s, "mount", "refresh", jar, None)
           u == IF "mount" \in ends THEN [m EXCEPT !.mount = "had"] ELSE s
           v == IF "callback" \in ends THEN apiFetch(u, "land", Browser(jar, kept)) ELSE u
<1>1. q = IF "route" \in ends \/ ("land" \in ends /\ result = "ok")
          THEN [v EXCEPT !.page = middleware(dest, jar)] ELSE v
  <2>1. Browser(jar, kept).jar = jar
    BY DEF Browser
  <2>2. [r EXCEPT !.calls = [y \in Why |-> IF y \in ends THEN NoCall ELSE @[y]],
                  !.user = IF ends \cap Loads # {} THEN loadUser(@, result) ELSE @] = s
    BY DEF RecordOK, TabRecord
  <2> HIDE DEF s
  <2> QED BY <2>1, <2>2 DEF Ended
<1>2. r \in TabRecord
  BY DEF RecordOK
<1>3. NoCall \in Call
  BY DEF NoCall, Call, Step, None
<1>4. known \in User
  BY RecordsOfTabs DEF loadUser, User
<1>5. none \in [Why -> Call]
  BY <1>3, RecordsOfTabs
<1>6. /\ \A y \in Why : none[y] = IF y \in ends THEN NoCall ELSE r.calls[y]
      /\ NoCall.step = "none"
  BY DEF NoCall
<1> HIDE DEF none, known
<1>7. /\ s \in TabRecord /\ s.calls = none /\ s.req = r.req /\ s.mount = r.mount /\ s.page = r.page
  BY <1>2, <1>4, <1>5 DEF TabRecord
<1>8. RecordOK(s)
  BY <1>7 DEF RecordOK
<1> HIDE DEF s
<1>9. /\ RecordOK(u) /\ Asks(r, u, jar) /\ MountSays(u) /\ u.page = r.page /\ u.calls = none
      /\ u.req["client"] = r.req["client"]
  <2>1. CASE "mount" \in ends
    <3>1. r.mount = "me" /\ r.req["mount"].at = "none"
      BY <2>1 DEF MountSays
    <3>2. /\ RecordOK(m) /\ m.req["mount"] = NewRefresh(jar)
          /\ \A x \in Who \ {"mount"} : m.req[x] = s.req[x]
          /\ m.calls = s.calls /\ m.page = s.page
      <4>1. /\ "mount" \in Who /\ "refresh" \in Kind \ {"none"} /\ None \in Nat
            /\ ("mount" = "form") <=> ("refresh" # "refresh")
        BY DEF Who, Kind, None
      <4> QED BY <1>8, <4>1, RequestMade DEF NewRefresh
    <3> HIDE DEF m
    <3>3. u = [m EXCEPT !.mount = "had"]
      BY <2>1
    <3>4. /\ u \in TabRecord /\ u.req = m.req /\ u.calls = m.calls /\ u.page = m.page /\ u.mount = "had"
      BY <3>2, <3>3 DEF RecordOK, TabRecord, Mounting
    <3>5. RecordOK(u)
      BY <3>2, <3>4 DEF RecordOK
    <3>6. u.req["mount"].at = "sent"
      BY <3>2, <3>4 DEF NewRefresh
    <3>7. none["mount"].step = "none"
      BY <1>6, <2>1 DEF Why
    <3>8. u.calls["mount"].step = "none"
      BY <1>7, <3>2, <3>4, <3>7
    <3>9. MountSays(u)
      BY <3>4, <3>6, <3>8 DEF MountSays
    <3>10. Asks(r, u, jar)
      BY <1>7, <3>1, <3>2, <3>4 DEF Asks, Who
    <3> QED BY <1>7, <3>2, <3>4, <3>5, <3>9, <3>10 DEF Who
  <2>2. CASE "mount" \notin ends
    <3>1. u = s
      BY <2>2
    <3>2. none["mount"] = r.calls["mount"]
      BY <1>6, <2>2 DEF Why
    <3>3. MountSays(s)
      BY <1>7, <3>2 DEF MountSays
    <3> QED BY <1>7, <1>8, <3>1, <3>3 DEF Asks
  <2> QED BY <2>1, <2>2
<1> HIDE DEF u
<1>10. WaitsAs(r, u, ends)
  BY <1>6, <1>9 DEF WaitsAs, Waiting
<1>11. /\ RecordOK(v) /\ Asks(r, v, jar) /\ MountSays(v) /\ v.page = r.page /\ WaitsAs(r, v, ends)
  <2>1. CASE "callback" \notin ends
    BY <1>9, <1>10, <2>1
  <2>2. CASE "callback" \in ends
    <3>1. v = apiFetch(u, "land", Browser(jar, kept)) /\ "land" \in Why /\ "mount" \in Why \ {"land"}
      BY <2>2 DEF Why
    <3> HIDE DEF v
    <3>2. /\ RecordOK(v) /\ Asks(u, v, jar) /\ WaitsAs(u, v, {})
          /\ v.req["mount"] = u.req["mount"]
          /\ \A y \in Why \ {"land"} : v.calls[y] = u.calls[y]
          /\ v.page = u.page /\ v.mount = u.mount
      <4>1. RecordOK(u)
        BY <1>9
      <4>2. RecordOK(v) /\ Asks(u, v, jar) /\ WaitsAs(u, v, {})
        BY <3>1, <4>1, Fetches
      <4>3. v.req["mount"] = u.req["mount"] /\ \A y \in Why \ {"land"} : v.calls[y] = u.calls[y]
        BY <3>1, <4>1, Fetches, SMTT(30)
      <4>4. v.page = u.page /\ v.mount = u.mount
        BY <3>1, <4>1, Fetches
      <4> QED BY <4>2, <4>3, <4>4
    <3>3. MountSays(v)
      BY <1>9, <3>1, <3>2 DEF MountSays
    <3>4. Asks(r, v, jar)
      BY <1>9, <3>2, AsksOn
    <3>5. WaitsAs(r, v, ends)
      <4>1. u.req["client"].at # "none" => v.req["client"].at # "none"
        BY <3>2, AsksKeeps DEF Who
      <4> QED BY <1>10, <3>2, <4>1 DEF WaitsAs
    <3> QED BY <1>9, <3>2, <3>3, <3>4, <3>5
  <2> QED BY <2>1, <2>2
<1> HIDE DEF v
<1>12. CASE q = v
  BY <1>11, <1>12 DEF Open
<1>13. CASE q = [v EXCEPT !.page = middleware(dest, jar)]
  <2>1. middleware(dest, jar) \in Page \ {"closed"}
    BY DEF middleware, postSignInDestination, Page
  <2>2. /\ q \in TabRecord /\ q.req = v.req /\ q.calls = v.calls /\ q.mount = v.mount
        /\ q.page = middleware(dest, jar)
    BY <1>11, <1>13, <2>1 DEF RecordOK, TabRecord
  <2>3. RecordOK(q)
    BY <1>11, <2>2 DEF RecordOK
  <2>4. MountSays(q) /\ Asks(r, q, jar) /\ WaitsAs(r, q, ends)
    BY <1>11, <2>2 DEF MountSays, Asks, WaitsAs, Waiting
  <2> QED BY <2>1, <2>2, <2>3, <2>4 DEF Open
<1> QED BY <1>1, <1>12, <1>13

(* The refresh settles: whoever waits afterwards waits for another one. *)
LEMMA Settles ==
  ASSUME NEW r, RecordOK(r), MountSays(r), NEW n \in Nat, NEW jar \in Nat, NEW kept \in Nat,
         NEW dest \in postSignInDestination,
         NEW q, q = Settled(r, n, Browser(jar, kept), dest)
  PROVE  /\ RecordOK(q) /\ Asks(r, q, jar) /\ MountSays(q) /\ WaitsOnFlight(q)
         /\ Open(r) => Open(q)
<1> DEFINE Need == {y \in Why : r.calls[y].step = "need"}
           Renew == {y \in Why : r.calls[y].step = "renew"}
           On(y) == IF y \in Need THEN [r.calls[y] EXCEPT !.step = "sent", !.token = n]
                    ELSE IF y \in Renew /\ n # None THEN [r.calls[y] EXCEPT !.step = "again", !.token = n]
                    ELSE r.calls[y]
           on == [y \in Why |-> On(y)]
           s == [r EXCEPT !.calls = on]
<1>1. r \in TabRecord
  BY DEF RecordOK
<1>2. q = IF n # None THEN s ELSE Ended(s, Renew, "denied", Browser(jar, kept), dest)
  <2>1. [r EXCEPT !.calls = [y \in Why |->
               IF y \in Need THEN [@[y] EXCEPT !.step = "sent", !.token = n]
               ELSE IF y \in Renew /\ n # None THEN [@[y] EXCEPT !.step = "again", !.token = n]
               ELSE @[y]]] = s
    BY <1>1 DEF TabRecord
  <2> QED BY <2>1 DEF Settled
<1>3. \A y \in Why : /\ On(y) \in Call
                     /\ On(y).step = IF y \in Need THEN "sent"
                                     ELSE IF y \in Renew /\ n # None THEN "again" ELSE r.calls[y].step
  <2> SUFFICES ASSUME NEW y \in Why
               PROVE  /\ On(y) \in Call
                      /\ On(y).step = IF y \in Need THEN "sent"
                                      ELSE IF y \in Renew /\ n # None THEN "again" ELSE r.calls[y].step
    OBVIOUS
  <2>1. r.calls[y] \in Call
    BY RecordsOfTabs
  <2> QED BY <2>1 DEF Call, Step
<1> HIDE DEF On
<1>4. on \in [Why -> Call] /\ \A y \in Why : on[y] = On(y)
  BY <1>3
<1> HIDE DEF on
<1>5. s \in TabRecord /\ s.calls = on /\ s.req = r.req /\ s.page = r.page /\ s.mount = r.mount
  BY <1>1, <1>4 DEF TabRecord
<1>6. RecordOK(s)
  BY <1>5 DEF RecordOK
<1>7. s.calls["mount"].step = "none" <=> r.calls["mount"].step = "none"
  <2>1. "mount" \in Why
    BY DEF Why
  <2> QED BY <1>3, <1>4, <1>5, <2>1
<1>8. MountSays(s)
  BY <1>5, <1>7 DEF MountSays
<1>9. \A y \in Waiting(s) : n = None /\ y \in Renew
  BY <1>3, <1>4, <1>5 DEF Waiting
<1>10. Asks(r, s, jar)
  BY <1>5 DEF Asks
<1>11. \A y \in Renew : n = None => s.calls[y].step # "none"
  BY <1>3, <1>4, <1>5
<1>12. Renew \in SUBSET Why
  OBVIOUS
<1> HIDE DEF s, Renew, Need
<1>13. CASE n # None
  BY <1>2, <1>5, <1>6, <1>8, <1>9, <1>10, <1>13 DEF WaitsOnFlight, Open
<1>14. CASE n = None
  <2>1. q = Ended(s, Renew, "denied", Browser(jar, kept), dest)
    BY <1>2, <1>14
  <2>2. /\ RecordOK(q) /\ Asks(s, q, jar) /\ MountSays(q) /\ WaitsAs(s, q, Renew)
        /\ Open(s) => Open(q)
    BY <1>6, <1>8, <1>11, <1>12, <1>14, <2>1, Ends
  <2>3. WaitsOnFlight(q)
    BY <1>9, <2>2 DEF WaitsAs, WaitsOnFlight
  <2>4. Asks(r, q, jar)
    BY <1>10, <2>2, AsksOn
  <2> QED BY <1>5, <2>2, <2>3, <2>4 DEF Open
<1> QED BY <1>13, <1>14

-----------------------------------------------------------------------------
(* What a step of one tab does to the promise *)

LEMMA RequestsOf ==
  ASSUME NEW f
  PROVE  /\ IsFiniteSet(Requests(f))
         /\ \A t \in Tab, w \in Who : <<t, w>> \in Requests(f) <=> f[t].req[w].at # "none"
         /\ \A a \in Requests(f) : \E t \in Tab, w \in Who : a = <<t, w>> /\ f[t].req[w].at # "none"
<1>1. IsFiniteSet(Who)
  <2>1. Who = {"client"} \cup {"mount"} \cup {"form"}
    BY DEF Who
  <2> QED BY <2>1, FS_Singleton, FS_Union
<1>2. IsFiniteSet(Tab \X Who)
  BY <1>1, AuthAssumption, FS_Product
<1> QED BY <1>2, FS_Subset DEF Requests

(* A browser with no more than one auth request under way. *)
LEMMA NotOverlapping ==
  ASSUME NEW f, ~ (Cardinality(Requests(f)) > 1)
  PROVE  Unique(f)
<1> SUFFICES ASSUME NEW t \in Tab, NEW u \in Tab, NEW w \in Who, NEW x \in Who,
                    f[t].req[w].at # "none", f[u].req[x].at # "none", <<t, w>> # <<u, x>>
             PROVE  FALSE
  BY DEF Unique
<1> DEFINE two == {<<t, w>>, <<u, x>>}
<1>1. two \in SUBSET Requests(f)
  BY RequestsOf
<1>2. IsFiniteSet(two) /\ Cardinality(two) = 2
  <2>1. \A a, b : a # b => IsFiniteSet({a, b}) /\ Cardinality({a, b}) = 2
    <3> SUFFICES ASSUME NEW a, NEW b, a # b PROVE IsFiniteSet({a, b}) /\ Cardinality({a, b}) = 2
      OBVIOUS
    <3>1. IsFiniteSet({a}) /\ Cardinality({a}) = 1
      BY FS_Singleton
    <3>2. IsFiniteSet({a} \cup {b}) /\ Cardinality({a} \cup {b}) = 2
      <4>1. /\ IsFiniteSet({a} \cup {b})
            /\ Cardinality({a} \cup {b}) = IF b \in {a} THEN Cardinality({a}) ELSE Cardinality({a}) + 1
        BY <3>1, FS_AddElement
      <4> QED BY <3>1, <4>1
    <3>3. {a, b} = {a} \cup {b}
      OBVIOUS
    <3> QED BY <3>2, <3>3
  <2> QED BY <2>1
<1> HIDE DEF two
<1>3. Cardinality(two) <= Cardinality(Requests(f)) /\ Cardinality(Requests(f)) \in Nat
  BY <1>1, RequestsOf, FS_Subset, FS_CardinalityType
<1> QED BY <1>2, <1>3

LEMMA Promises ==
  ASSUME NEW p, Promised(p), promise' # "unknown"
  PROVE  promise' = p /\ Unique(tab')
BY NotOverlapping DEF Promised

LEMMA Sole ==
  ASSUME NEW t \in Tab, NEW w \in Who, Alone(t, w)
  PROVE  \A u \in Tab, x \in Who : UnderWay(u, x) => u = t /\ x = w
<1> SUFFICES ASSUME NEW u \in Tab, NEW x \in Who, UnderWay(u, x) PROVE u = t /\ x = w
  OBVIOUS
<1>1. <<u, x>> \in Requests(tab)
  BY RequestsOf DEF UnderWay
<1> QED BY <1>1 DEF Alone

LEMMA TabChanges ==
  ASSUME SessionInv, NEW t \in Tab, NEW r, TabSound(r), Update(t, r)
  PROVE  /\ tab' \in [Tab -> TabRecord] /\ tab'[t] = r
         /\ \A u \in Tab \ {t} : tab'[u] = tab[u]
         /\ \A u \in Tab : TabSound(tab'[u])
<1>1. r \in TabRecord /\ tab \in [Tab -> TabRecord]
  BY DEF TabSound, RecordOK, SessionInv, SessionTypes
<1>2. tab' = [tab EXCEPT ![t] = r]
  BY DEF Update
<1> QED BY <1>1, <1>2 DEF SessionInv

(* Requests that a step leaves alone, and new ones, made with the cookie. *)
Newly(q) == q.at = "sent" /\ q.jar = cookie' /\ q.kind # "session"
LeftOrNew(but) ==
  \A u \in Tab, x \in Who : tab'[u].req[x].at # "none" =>
    \/ tab'[u].req[x] = tab[u].req[x] /\ <<u, x>> # but
    \/ Newly(tab'[u].req[x])

(* The tokens on their way: the cookie changes at most to none, or to the
   token that an answer carried. *)
LEMMA TokensStay ==
  ASSUME SessionInv, SessionTypes', NEW t \in Tab, NEW w \in Who,
         live \subseteq live', minted <= minted', cookie' <= minted',
         LeftOrNew(<<t, w>>) \/ (cookie' = cookie /\ LeftOrNew(<<>>)),
         \/ cookie' \in {cookie, None}
         \/ UnderWay(t, w) /\ Pending(tab[t].req[w]) /\ cookie' = tab[t].req[w].got
  PROVE  TokensOK'
<1> USE DEF SessionInv
<1> DEFINE Old(u, x) == /\ UnderWay(u, x) /\ tab'[u].req[x] = tab[u].req[x]
                        /\ cookie' \in {cookie, None} \/ <<u, x>> # <<t, w>>
           New(u, x) == Newly(tab'[u].req[x])
<1>0. live' \subseteq Nat \ {None} /\ live \subseteq Nat \ {None} /\ minted \in Nat /\ minted' \in Nat /\ cookie' \in Nat
  BY DEF SessionTypes
<1>1. ASSUME NEW u \in Tab, NEW x \in Who, UnderWay(u, x)'
      PROVE  Old(u, x) \/ New(u, x)
  <2>1. tab'[u].req[x].at # "none"
    BY <1>1 DEF UnderWay
  <2>2. CASE LeftOrNew(<<t, w>>)
    BY <2>1, <2>2 DEF LeftOrNew, UnderWay
  <2>3. CASE cookie' = cookie /\ LeftOrNew(<<>>)
    BY <2>1, <2>3 DEF LeftOrNew, UnderWay
  <2> QED BY <2>2, <2>3
<1>2. \A u \in Tab, x \in Who : New(u, x) => /\ tab'[u].req[x].jar = cookie' /\ ~ Pending(tab'[u].req[x])
  BY DEF Newly, Pending
<1>2a. ASSUME NEW u \in Tab, NEW x \in Who
       PROVE tab'[u].req[x] \in AuthRequest /\ tab[u].req[x] \in AuthRequest
  BY <1>2a DEF SessionTypes, TabRecord
<1>3. ASSUME NEW u \in Tab, NEW x \in Who, Old(u, x), Pending(tab[u].req[x])
      PROVE  /\ tab[u].req[x].got \in live' /\ tab[u].req[x].got <= minted'
             /\ tab[u].req[x].got # cookie'
  <2>1. tab[u].req[x].got \in live /\ tab[u].req[x].got <= minted /\ tab[u].req[x].got # cookie
    BY <1>3 DEF TokensOK
  <2>2. tab[u].req[x].got # cookie'
    <3>1. CASE cookie' \in {cookie, None}
      BY <2>1, <3>1, <1>0
    <3>2. CASE /\ UnderWay(t, w) /\ Pending(tab[t].req[w]) /\ cookie' = tab[t].req[w].got
               /\ <<u, x>> # <<t, w>>
      BY <1>3, <3>2 DEF TokensOK
    <3>3. cookie' \in {cookie, None} \/ <<u, x>> # <<t, w>>
      BY <1>3
    <3>4. \/ cookie' \in {cookie, None}
          \/ UnderWay(t, w) /\ Pending(tab[t].req[w]) /\ cookie' = tab[t].req[w].got
      OBVIOUS
    <3> QED BY <3>1, <3>2, <3>3, <3>4, Zenon
  <2>3. tab[u].req[x].got \in live'
    BY <2>1
  <2>4. \A g \in Nat : g <= minted => g <= minted'
    BY <1>0
  <2>5. tab[u].req[x].got <= minted'
    BY <1>0, <2>1, <2>4
  <2> QED BY <2>2, <2>3, <2>5
<1>4. ASSUME NEW u \in Tab, NEW x \in Who, UnderWay(u, x)'
      PROVE  /\ tab'[u].req[x].jar <= minted'
             /\ Pending(tab'[u].req[x]) => /\ tab'[u].req[x].got \in live'
                                           /\ tab'[u].req[x].got <= minted'
                                           /\ tab'[u].req[x].got # cookie'
  <2>1. CASE New(u, x)
    BY <2>1, <1>2
  <2>2. CASE Old(u, x)
    <3>1. tab'[u].req[x] = tab[u].req[x] /\ UnderWay(u, x)
      BY <2>2
    <3>2. tab[u].req[x].jar <= minted
      BY <3>1 DEF TokensOK
    <3>3. tab[u].req[x].jar \in Nat
      BY <1>2a DEF AuthRequest
    <3> QED BY <1>0, <1>3, <2>2, <3>1, <3>2, <3>3
  <2> QED BY <1>1, <1>4, <2>1, <2>2
<1>5. ASSUME NEW u \in Tab, NEW v \in Tab, NEW x \in Who, NEW y \in Who,
             UnderWay(u, x)', UnderWay(v, y)', Pending(tab'[u].req[x])
      PROVE  /\ tab'[v].req[y].jar # tab'[u].req[x].got
             /\ Pending(tab'[v].req[y]) /\ tab'[v].req[y].got = tab'[u].req[x].got => u = v /\ x = y
  <2>1. Old(u, x)
    BY <1>1, <1>2, <1>5
  <2>2. tab'[u].req[x] = tab[u].req[x] /\ UnderWay(u, x)
    BY <2>1
  <2>3. CASE New(v, y)
    <3>1. tab[u].req[x].got # cookie'
      BY <1>3, <1>5, <2>1, <2>2
    <3> QED BY <1>2, <2>2, <2>3, <3>1
  <2>4. CASE Old(v, y)
    <3>1. tab'[v].req[y] = tab[v].req[y] /\ UnderWay(v, y)
      BY <2>4
    <3>2. Pending(tab[u].req[x])
      BY <1>5, <2>2
    <3>3. /\ tab[v].req[y].jar # tab[u].req[x].got
          /\ Pending(tab[v].req[y]) /\ tab[v].req[y].got = tab[u].req[x].got => u = v /\ x = y
      BY <2>2, <3>1, <3>2 DEF TokensOK
    <3> QED BY <2>2, <3>1, <3>3
  <2> QED BY <1>1, <1>5, <2>3, <2>4
<1> HIDE DEF Old, New
<1> QED BY <1>4, <1>5, SMTT(30) DEF TokensOK, UnderWay

(* A step that adds requests, made with the cookie as it stays. *)
LEMMA PromiseStays ==
  ASSUME SessionInv, SessionTypes', cookie' = cookie, live \subseteq live',
         promise' # "unknown" => promise' = promise /\ Unique(tab'),
         \A u \in Tab, x \in Who : UnderWay(u, x) => tab'[u].req[x] = tab[u].req[x],
         \A u \in Tab, x \in Who : tab'[u].req[x].at # "none" =>
           tab'[u].req[x] = tab[u].req[x] \/ (tab'[u].req[x].at = "sent" /\ tab'[u].req[x].jar = cookie')
  PROVE  PromiseKept'
<1> SUFFICES ASSUME promise' # "unknown" PROVE PromiseKept'
  BY DEF PromiseKept
<1>1. promise' = promise /\ Unique(tab') /\ PromiseKept /\ promise # "unknown"
  BY DEF SessionInv
<1>2. \A u \in Tab, x \in Who : UnderWay(u, x) => UnderWay(u, x)'
  BY DEF UnderWay
<1>3. CASE \E u \in Tab, x \in Who : UnderWay(u, x)
  <2>1. PICK t \in Tab, w \in Who : UnderWay(t, w)
    BY <1>3
  <2>2. ASSUME NEW u \in Tab, NEW x \in Who, UnderWay(u, x)' PROVE u = t /\ x = w
    BY <1>1, <1>2, <2>1, <2>2 DEF Unique, UnderWay
  <2>3. tab'[t].req[w] = tab[t].req[w] /\ UnderWay(t, w)'
    BY <1>2, <2>1
  <2>4. promise = "in" => StaysIn(tab[t].req[w])
    BY <1>1, <2>1 DEF PromiseKept
  <2>5. promise = "out" => StaysOut(tab[t].req[w]) /\ cookie = None
    BY <1>1, <2>1 DEF PromiseKept
  <2>6. promise = "in" => StaysIn(tab[t].req[w])'
    BY <2>3, <2>4 DEF StaysIn
  <2>7. promise' = "in" => \A u \in Tab, x \in Who : UnderWay(u, x)' => StaysIn(tab[u].req[x])'
    BY <1>1, <2>2, <2>6
  <2>8. promise' = "out" => \A u \in Tab, x \in Who : UnderWay(u, x)' => StaysOut(tab'[u].req[x])
    BY <1>1, <2>2, <2>3, <2>5
  <2> QED BY <1>1, <2>3, <2>5, <2>7, <2>8 DEF PromiseKept
<1>4. CASE ~ \E u \in Tab, x \in Who : UnderWay(u, x)
  <2>1. /\ promise = "in" => cookie' \in live'
        /\ promise = "out" => cookie' = None
    BY <1>1, <1>4 DEF PromiseKept
  <2>2. ASSUME NEW u \in Tab, NEW x \in Who, UnderWay(u, x)'
        PROVE  tab'[u].req[x].at = "sent" /\ tab'[u].req[x].jar = cookie'
    <3>1. tab'[u].req[x].at # "none"
      BY <2>2 DEF UnderWay
    <3>2. tab'[u].req[x] # tab[u].req[x]
      BY <1>4, <3>1 DEF UnderWay
    <3> QED BY <3>1, <3>2
  <2>3. promise' = "in" => \A u \in Tab, x \in Who : UnderWay(u, x)' => StaysIn(tab[u].req[x])'
    BY <1>1, <2>1, <2>2 DEF StaysIn
  <2>4. promise' = "out" => \A u \in Tab, x \in Who : UnderWay(u, x)' => StaysOut(tab'[u].req[x])
    BY <1>1, <2>1, <2>2 DEF StaysOut
  <2> QED BY <1>1, <2>1, <2>3, <2>4 DEF PromiseKept
<1> QED BY <1>3, <1>4

(* A step that ends the sole request and leaves what it promises. *)
LEMMA PromiseAnswered ==
  ASSUME SessionInv, SessionTypes', NEW t \in Tab, NEW w \in Who, LeftOrNew(<<t, w>>),
         promise' # "unknown" => Unique(tab') /\ \A u \in Tab, x \in Who : UnderWay(u, x) => u = t /\ x = w,
         promise' = "in" => cookie' \in live',
         promise' = "out" => cookie' = None
  PROVE  PromiseKept'
<1> SUFFICES ASSUME promise' # "unknown" PROVE PromiseKept'
  BY DEF PromiseKept
<1>1. ASSUME NEW u \in Tab, NEW x \in Who, UnderWay(u, x)' PROVE Newly(tab'[u].req[x])
  <2>1. tab'[u].req[x].at # "none"
    BY <1>1 DEF UnderWay
  <2>2. CASE tab'[u].req[x] = tab[u].req[x] /\ <<u, x>> # <<t, w>>
    BY <2>1, <2>2 DEF UnderWay
  <2> QED BY <2>1, <2>2 DEF LeftOrNew
<1>2. promise' = "in" => \A u \in Tab, x \in Who : UnderWay(u, x)' => StaysIn(tab[u].req[x])'
  BY <1>1 DEF Newly, StaysIn
<1>3. promise' = "out" => \A u \in Tab, x \in Who : UnderWay(u, x)' => StaysOut(tab'[u].req[x])
  BY <1>1 DEF Newly, StaysOut
<1> QED BY <1>2, <1>3 DEF PromiseKept

(* A step that moves one request on. *)
LEMMA MovesOn ==
  ASSUME SessionInv, SessionTypes', NEW t \in Tab, NEW w \in Who, UnderWay(t, w), UnderWay(t, w)',
         tab'[t].req[w].kind = tab[t].req[w].kind, tab'[t].req[w].jar = tab[t].req[w].jar,
         \A u \in Tab, x \in Who : u # t \/ x # w => tab'[u].req[x] = tab[u].req[x],
         cookie' = cookie, minted <= minted',
         \A n \in live : n # tab[t].req[w].jar => n \in live',
         Pending(tab'[t].req[w]) =>
           \/ Pending(tab[t].req[w]) /\ tab'[t].req[w].got = tab[t].req[w].got
           \/ minted' = minted + 1 /\ tab'[t].req[w].got = minted' /\ minted' \in live',
         promise' \in {promise, "unknown"},
         promise' = "in" /\ StaysIn(tab[t].req[w]) => StaysIn(tab[t].req[w])',
         promise' = "out" /\ StaysOut(tab[t].req[w]) => StaysOut(tab'[t].req[w])
  PROVE  TokensOK' /\ PromiseKept'
<1> USE DEF SessionInv
<1> DEFINE old == tab[t].req[w]
           new == tab'[t].req[w]
           Other(u, x) == u # t \/ x # w
<1>1. minted \in Nat /\ minted' \in Nat /\ cookie \in Nat
  BY DEF SessionTypes
<1>2. \A u \in Tab, x \in Who : tab[u].req[x] \in AuthRequest /\ tab'[u].req[x] \in AuthRequest
  BY DEF SessionTypes, TabRecord
<1>3. \A u \in Tab, x \in Who : UnderWay(u, x)' => UnderWay(u, x)
  BY DEF UnderWay
<1>4. \A u \in Tab, x \in Who : Other(u, x) => tab'[u].req[x] = tab[u].req[x]
  OBVIOUS
<1>5. \A u \in Tab, x \in Who : tab'[u].req[x].jar = tab[u].req[x].jar
  BY <1>4
<1>6. ASSUME NEW u \in Tab, NEW x \in Who, UnderWay(u, x)'
      PROVE  tab'[u].req[x].jar <= minted'
  <2>1. tab[u].req[x].jar <= minted /\ tab[u].req[x].jar \in Nat
    BY <1>2, <1>3, <1>6 DEF TokensOK, AuthRequest
  <2>2. \A g \in Nat : g <= minted => g <= minted'
    BY <1>1
  <2> QED BY <1>5, <2>1, <2>2
<1> DEFINE Fresh1(u, x) == u = t /\ x = w /\ minted' = minted + 1 /\ tab'[u].req[x].got = minted' /\ minted' \in live'
           Kept(u, x) == Pending(tab[u].req[x]) /\ tab'[u].req[x].got = tab[u].req[x].got
<1>7. ASSUME NEW u \in Tab, NEW x \in Who, UnderWay(u, x)', Pending(tab'[u].req[x])
      PROVE  Fresh1(u, x) \/ Kept(u, x)
  <2>1. CASE Other(u, x)
    BY <1>4, <1>7, <2>1
  <2>2. CASE ~ Other(u, x)
    BY <1>7, <2>2
  <2> QED BY <2>1, <2>2
<1>8. ASSUME NEW u \in Tab, NEW x \in Who, UnderWay(u, x)', Pending(tab'[u].req[x])
      PROVE  tab'[u].req[x].got \in live' /\ tab'[u].req[x].got <= minted' /\ tab'[u].req[x].got # cookie'
  <2>1. CASE Fresh1(u, x)
    <3>1. cookie <= minted
      BY DEF TokensOK
    <3> QED BY <1>1, <2>1, <3>1
  <2>2. CASE Kept(u, x)
    <3>1. /\ tab[u].req[x].got \in live /\ tab[u].req[x].got <= minted /\ tab[u].req[x].got # cookie
          /\ tab[t].req[w].jar # tab[u].req[x].got
      BY <1>3, <1>8, <2>2 DEF TokensOK
    <3>2. tab[u].req[x].got \in Nat
      BY <1>2 DEF AuthRequest
    <3>3. \A g \in Nat : g <= minted => g <= minted'
      BY <1>1
    <3>4. tab[u].req[x].got \in live'
      BY <3>1
    <3>5. tab[u].req[x].got <= minted'
      BY <3>1, <3>2, <3>3
    <3> QED BY <2>2, <3>1, <3>4, <3>5
  <2> QED BY <1>7, <1>8, <2>1, <2>2
<1>9. ASSUME NEW u \in Tab, NEW v \in Tab, NEW x \in Who, NEW y \in Who,
             UnderWay(u, x)', UnderWay(v, y)', Pending(tab'[u].req[x])
      PROVE  /\ tab'[v].req[y].jar # tab'[u].req[x].got
             /\ Pending(tab'[v].req[y]) /\ tab'[v].req[y].got = tab'[u].req[x].got => u = v /\ x = y
  <2>0. UnderWay(u, x) /\ UnderWay(v, y)
    BY <1>3, <1>9
  <2>1. CASE Fresh1(u, x)
    <3>1. tab[v].req[y].jar <= minted /\ tab[v].req[y].jar \in Nat
      BY <1>2, <2>0 DEF TokensOK, AuthRequest
    <3>2. tab'[v].req[y].jar # tab'[u].req[x].got
      BY <1>1, <1>5, <2>1, <3>1
    <3>3. ASSUME Pending(tab'[v].req[y]), tab'[v].req[y].got = tab'[u].req[x].got
          PROVE  u = v /\ x = y
      <4>1. CASE Kept(v, y)
        <5>1. tab[v].req[y].got <= minted /\ tab[v].req[y].got \in Nat
          BY <1>2, <2>0, <4>1 DEF TokensOK, AuthRequest
        <5>2. tab[v].req[y].got = minted + 1
          BY <2>1, <3>3, <4>1
        <5> QED BY <1>1, <5>1, <5>2
      <4>2. CASE Fresh1(v, y)
        BY <2>1, <4>2
      <4> QED BY <1>7, <1>9, <3>3, <4>1, <4>2
    <3> QED BY <3>2, <3>3
  <2>2. CASE Kept(u, x)
    <3>1. /\ tab[v].req[y].jar # tab[u].req[x].got
          /\ Pending(tab[v].req[y]) /\ tab[v].req[y].got = tab[u].req[x].got => u = v /\ x = y
      BY <2>0, <2>2 DEF TokensOK
    <3>2. tab'[v].req[y].jar # tab'[u].req[x].got
      BY <1>5, <2>2, <3>1
    <3>3. ASSUME Pending(tab'[v].req[y]), tab'[v].req[y].got = tab'[u].req[x].got
          PROVE  u = v /\ x = y
      <4>1. CASE Kept(v, y)
        BY <2>2, <3>1, <3>3, <4>1
      <4>2. CASE Fresh1(v, y)
        <5>1. tab[u].req[x].got <= minted /\ tab[u].req[x].got \in Nat
          BY <1>2, <2>0, <2>2 DEF TokensOK, AuthRequest
        <5>2. tab[u].req[x].got = minted + 1
          BY <2>2, <3>3, <4>2
        <5> QED BY <1>1, <5>1, <5>2
      <4> QED BY <1>7, <1>9, <3>3, <4>1, <4>2
    <3> QED BY <3>2, <3>3
  <2> QED BY <1>7, <1>9, <2>1, <2>2
<1>10. cookie' <= minted'
  <2>1. cookie <= minted
    BY DEF TokensOK
  <2> QED BY <1>1, <2>1
<1> HIDE DEF Fresh1, Kept
<1>11. TokensOK'
  BY <1>6, <1>8, <1>9, <1>10 DEF TokensOK
<1>12. PromiseKept'
  <2> SUFFICES ASSUME promise' # "unknown" PROVE PromiseKept'
    BY DEF PromiseKept
  <2>1. promise' = promise /\ PromiseKept /\ Unique(tab)
    BY DEF PromiseKept
  <2>2. ASSUME NEW u \in Tab, NEW x \in Who, UnderWay(u, x)' PROVE u = t /\ x = w
    BY <1>3, <2>1, <2>2 DEF Unique, UnderWay
  <2>3. Unique(tab')
    BY <2>2 DEF Unique, UnderWay
  <2>4. promise' = "in" => StaysIn(tab[t].req[w])'
    BY <2>1 DEF PromiseKept
  <2>5. promise' = "out" => StaysOut(tab'[t].req[w]) /\ cookie' = None
    BY <2>1 DEF PromiseKept
  <2>6. promise' = "in" => \A u \in Tab, x \in Who : UnderWay(u, x)' => StaysIn(tab[u].req[x])'
    BY <2>2, <2>4
  <2>7. promise' = "out" => \A u \in Tab, x \in Who : UnderWay(u, x)' => StaysOut(tab'[u].req[x])
    BY <2>2, <2>5
  <2> QED BY <2>3, <2>5, <2>6, <2>7 DEF PromiseKept
<1> QED BY <1>11, <1>12

(* A tab asks for more with the cookie as it is: its requests under way go on. *)
LEMMA Adds ==
  ASSUME SessionInv, SessionTypes', NEW t \in Tab, cookie' = cookie, live \subseteq live', minted <= minted',
         promise' # "unknown" => promise' = promise /\ Unique(tab'),
         \A u \in Tab \ {t} : tab'[u] = tab[u],
         \A w \in Who : \/ tab'[t].req[w] = tab[t].req[w]
                        \/ ~UnderWay(t, w) /\ (tab'[t].req[w].at = "none" \/ Newly(tab'[t].req[w]))
  PROVE  TokensOK' /\ PromiseKept'
<1>1. \A u \in Tab, x \in Who : UnderWay(u, x) => tab'[u].req[x] = tab[u].req[x]
  OBVIOUS
<1>2. \A u \in Tab, x \in Who : tab'[u].req[x].at # "none" =>
        tab'[u].req[x] = tab[u].req[x] \/ Newly(tab'[u].req[x])
  OBVIOUS
<1>3. PromiseKept'
  BY <1>1, <1>2, PromiseStays DEF Newly
<1>4. LeftOrNew(<<>>)
  <2>1. \A u, x : <<u, x>> # <<>>
    OBVIOUS
  <2> QED BY <1>2, <2>1 DEF LeftOrNew
<1>5. cookie' <= minted'
  <2>1. cookie <= minted /\ cookie \in Nat /\ minted \in Nat /\ minted' \in Nat
    BY DEF SessionInv, SessionTypes, TokensOK
  <2> QED BY <2>1
<1>6. "form" \in Who
  BY DEF Who
<1> QED BY <1>3, <1>4, <1>5, <1>6, TokensStay

LEMMA Asking ==
  ASSUME SessionInv, SessionTypes', NEW t \in Tab, NEW r, TabSound(r), Update(t, r), Asks(tab[t], r, cookie),
         cookie' = cookie, live' = live, minted' = minted,
         promise' # "unknown" => promise' = promise /\ Unique(tab')
  PROVE  TokensOK' /\ PromiseKept'
<1>1. tab'[t] = r /\ \A u \in Tab \ {t} : tab'[u] = tab[u]
  BY TabChanges
<1>2. \A w \in Who : tab'[t].req[w] = tab[t].req[w] \/ (~UnderWay(t, w) /\ Newly(tab'[t].req[w]))
  BY <1>1 DEF Asks, NewRefresh, Newly, UnderWay
<1>3. live \subseteq live' /\ minted <= minted'
  BY DEF SessionInv, SessionTypes
<1> QED BY <1>1, <1>2, <1>3, Adds

-----------------------------------------------------------------------------
(* The servers *)

WithRequest(r, w, new) == [r EXCEPT !.req[w] = new]

LEMMA RequestSet ==
  ASSUME NEW r, RecordOK(r), NEW w \in Who, NEW new \in AuthRequest, RequestOK(w, new),
         NEW q, q = WithRequest(r, w, new)
  PROVE  /\ RecordOK(q) /\ q.req[w] = new
         /\ \A x \in Who \ {w} : q.req[x] = r.req[x]
         /\ q.calls = r.calls /\ q.page = r.page /\ q.mount = r.mount /\ q.user = r.user
         /\ q.mem = r.mem /\ q.shown = r.shown
<1>1. r \in TabRecord
  BY DEF RecordOK
<1>2. /\ q \in TabRecord /\ q.req = [r.req EXCEPT ![w] = new]
      /\ q.calls = r.calls /\ q.page = r.page /\ q.mount = r.mount /\ q.user = r.user
      /\ q.mem = r.mem /\ q.shown = r.shown
  BY <1>1 DEF TabRecord, WithRequest
<1>3. q.req[w] = new /\ \A x \in Who \ {w} : q.req[x] = r.req[x]
  BY <1>1, <1>2 DEF TabRecord
<1>4. RecordOK(q)
  BY <1>2, <1>3 DEF RecordOK
<1> QED BY <1>2, <1>3, <1>4

LEMMA RequestMoves ==
  ASSUME NEW r, TabSound(r), NEW w \in Who, r.req[w].at # "none",
         NEW new \in AuthRequest, RequestOK(w, new), new.at # "none",
         NEW q, q = WithRequest(r, w, new)
  PROVE  /\ TabSound(q) /\ q.req[w] = new /\ \A x \in Who \ {w} : q.req[x] = r.req[x]
<1>1. /\ RecordOK(q) /\ q.req[w] = new
      /\ \A x \in Who \ {w} : q.req[x] = r.req[x]
      /\ q.calls = r.calls /\ q.page = r.page /\ q.mount = r.mount
  <2>1. RecordOK(r)
    BY DEF TabSound
  <2> QED BY <2>1, RequestSet
<1>2. \A x \in Who : q.req[x].at = "none" <=> r.req[x].at = "none"
  BY <1>1
<1>3. "client" \in Who /\ "mount" \in Who
  BY DEF Who
<1> QED BY <1>1, <1>2, <1>3 DEF TabSound, WaitsOnFlight, Waiting, MountSays, ClosedIsIdle

(* What a server does to one request. *)
LEMMA ServerStep ==
  ASSUME SessionInv, NEW t \in Tab, NEW w \in Who, UnderWay(t, w),
         NEW new \in AuthRequest, RequestOK(w, new), new.at # "none",
         new.kind = tab[t].req[w].kind, new.jar = tab[t].req[w].jar,
         Update(t, WithRequest(tab[t], w, new)),
         UNCHANGED <<stored, cached, cookie>>,
         live' \subseteq Nat \ {None}, good' \subseteq Nat, minted' \in {minted, minted + 1}, events' \in Nat,
         \A n \in live : n # tab[t].req[w].jar => n \in live',
         Pending(new) =>
           \/ Pending(tab[t].req[w]) /\ new.got = tab[t].req[w].got
           \/ minted' = minted + 1 /\ new.got = minted' /\ minted' \in live',
         promise' \in {promise, "unknown"},
         promise' = "in" /\ StaysIn(tab[t].req[w]) =>
           /\ new.at \in {"sent", "checked", "down"} => cookie \in live'
           /\ new.kind = "refresh" => /\ new.at \notin {"empty", "refused"}
                                      /\ new.at \in {"sent", "checked"} => new.jar = cookie,
         promise' = "out" /\ StaysOut(tab[t].req[w]) => StaysOut(new)
  PROVE  SessionInv'
<1>0. PICK r : r = WithRequest(tab[t], w, new)
  OBVIOUS
<1>1. /\ TabSound(r) /\ r.req[w] = new /\ \A x \in Who \ {w} : r.req[x] = tab[t].req[x]
  <2>1. TabSound(tab[t])
    BY DEF SessionInv
  <2>2. tab[t].req[w].at # "none"
    BY DEF UnderWay
  <2> QED BY <1>0, <2>1, <2>2, RequestMoves
<1>2. /\ tab' \in [Tab -> TabRecord] /\ tab'[t] = r
      /\ \A u \in Tab \ {t} : tab'[u] = tab[u]
      /\ \A u \in Tab : TabSound(tab'[u])
  <2>1. Update(t, r)
    BY <1>0
  <2> QED BY <1>1, <2>1, TabChanges
<1>3. SessionTypes'
  BY <1>2 DEF SessionInv, SessionTypes
<1>4. tab'[t].req[w] = new /\ UnderWay(t, w)'
  BY <1>1, <1>2 DEF UnderWay
<1>5. \A u \in Tab, x \in Who : u # t \/ x # w => tab'[u].req[x] = tab[u].req[x]
  BY <1>1, <1>2
<1>6. minted <= minted'
  BY DEF SessionInv, SessionTypes
<1>7. promise' = "in" /\ StaysIn(tab[t].req[w]) => StaysIn(tab[t].req[w])'
  BY <1>4 DEF StaysIn
<1>8. TokensOK' /\ PromiseKept'
  BY <1>3, <1>4, <1>5, <1>6, <1>7, MovesOn
<1> QED BY <1>2, <1>3, <1>8 DEF SessionInv

LEMMA ReachedRequest ==
  ASSUME SessionInv, NEW t \in Tab, NEW w \in Who, NEW at \in At, Reached(t, w, at),
         NEW new, new = [tab[t].req[w] EXCEPT !.at = at]
  PROVE  /\ new \in AuthRequest /\ Update(t, WithRequest(tab[t], w, new))
         /\ new.at = at /\ new.kind = tab[t].req[w].kind /\ new.jar = tab[t].req[w].jar
         /\ new.got = tab[t].req[w].got
<1>1. tab[t] \in TabRecord /\ tab[t].req[w] \in AuthRequest
  BY DEF SessionInv, SessionTypes, TabRecord
<1>2. [tab[t] EXCEPT !.req[w].at = at] = WithRequest(tab[t], w, new)
  BY <1>1 DEF WithRequest, TabRecord
<1> QED BY <1>1, <1>2 DEF Reached, AuthRequest

LEMMA RequestKinds ==
  ASSUME SessionInv, NEW t \in Tab, NEW w \in Who
  PROVE  RequestOK(w, tab[t].req[w]) /\ tab[t].req[w] \in AuthRequest
BY DEF SessionInv, SessionTypes, TabRecord, TabSound, RecordOK

LEMMA CheckRefreshKeeps ==
  ASSUME SessionInv, NEW t \in Tab, NEW w \in Who, CheckRefresh(t, w)
  PROVE  SessionInv'
<1> DEFINE q == tab[t].req[w]
           at == IF q.jar = None THEN "empty" ELSE IF q.jar \in live THEN "checked" ELSE "refused"
<1>1. /\ q.kind = "refresh" /\ q.at = "sent" /\ Reached(t, w, at)
      /\ UNCHANGED <<stored, cached, cookie, live, good, minted, promise, events>>
  BY DEF CheckRefresh, server
<1>2. PICK new : new = [q EXCEPT !.at = at]
  OBVIOUS
<1>3. at \in At /\ at # "none" /\ at # "ok"
  BY DEF At
<1>4. at \notin {"empty", "refused"} \/ q.jar \notin live
  BY DEF SessionInv, SessionTypes
<1>5. q.jar = None => at = "empty"
  OBVIOUS
<1> HIDE DEF at
<1>6. /\ new \in AuthRequest /\ Update(t, WithRequest(tab[t], w, new))
      /\ new.at = at /\ new.kind = q.kind /\ new.jar = q.jar /\ new.got = q.got
  BY <1>1, <1>2, <1>3, ReachedRequest
<1>7. RequestOK(w, new)
  BY <1>1, <1>6, RequestKinds DEF RequestOK, Credentials
<1>8. /\ live' \subseteq Nat \ {None} /\ good' \subseteq Nat /\ events' \in Nat
  BY <1>1 DEF SessionInv, SessionTypes
<1>9. UnderWay(t, w) /\ ~Pending(new)
  BY <1>1, <1>3, <1>6 DEF UnderWay, Pending
<1>10. StaysIn(q) => /\ new.at \in {"sent", "checked", "down"} => cookie \in live'
                     /\ new.kind = "refresh" => /\ new.at \notin {"empty", "refused"}
                                                /\ new.at \in {"sent", "checked"} => new.jar = cookie
  BY <1>1, <1>4, <1>6 DEF StaysIn
<1>11. StaysOut(q) => StaysOut(new)
  BY <1>1, <1>5, <1>6 DEF StaysOut
<1> QED BY <1>1, <1>3, <1>6, <1>7, <1>8, <1>9, <1>10, <1>11, ServerStep

LEMMA RotateRefreshKeeps ==
  ASSUME SessionInv, NEW t \in Tab, NEW w \in Who, RotateRefresh(t, w)
  PROVE  SessionInv'
<1> DEFINE q == tab[t].req[w]
<1>1. /\ q.at = "checked" /\ minted' = minted + 1
      /\ live' \in {(live \ {q.jar}) \cup {minted'}, live \cup {minted'}} /\ good' = good \cup {minted'}
      /\ events' \in {events, events + 1}
      /\ Update(t, [tab[t] EXCEPT !.req[w].at = "ok", !.req[w].got = minted'])
      /\ UNCHANGED <<stored, cached, cookie, promise>>
  BY DEF RotateRefresh, Event
<1>2. PICK new : new = [q EXCEPT !.at = "ok", !.got = minted']
  OBVIOUS
<1>3. tab[t] \in TabRecord /\ q \in AuthRequest /\ minted \in Nat /\ minted' \in Nat
  BY <1>1 DEF SessionInv, SessionTypes, TabRecord
<1>4. /\ new \in AuthRequest /\ new.at = "ok" /\ new.kind = q.kind /\ new.jar = q.jar /\ new.got = minted'
  BY <1>2, <1>3 DEF AuthRequest, At
<1>5. Update(t, WithRequest(tab[t], w, new))
  <2>1. [tab[t] EXCEPT !.req[w].at = "ok", !.req[w].got = minted'] = WithRequest(tab[t], w, new)
    BY <1>2, <1>3 DEF WithRequest, TabRecord, AuthRequest
  <2> QED BY <1>1, <2>1
<1>6. RequestOK(w, new) /\ q.kind = "refresh"
  BY <1>1, <1>4, RequestKinds DEF RequestOK
<1>7. live' \subseteq Nat \ {None} /\ good' \subseteq Nat /\ events' \in Nat
  BY <1>1, <1>3 DEF SessionInv, SessionTypes, None
<1>8. UnderWay(t, w)
  BY <1>1 DEF UnderWay
<1>9. ~ StaysOut(q)
  BY <1>1, <1>6 DEF StaysOut
<1> QED BY <1>1, <1>4, <1>5, <1>6, <1>7, <1>8, <1>9, ServerStep

LEMMA RotateFailsKeeps ==
  ASSUME SessionInv, NEW t \in Tab, NEW w \in Who, RotateFails(t, w)
  PROVE  SessionInv'
<1> DEFINE q == tab[t].req[w]
<1>1. /\ Event /\ q.at = "checked" /\ live' \in {live \ {q.jar}, live} /\ Reached(t, w, "refused")
      /\ promise' = "unknown" /\ UNCHANGED <<stored, cached, cookie, good, minted>>
  BY DEF RotateFails
<1>2. PICK new : new = [q EXCEPT !.at = "refused"]
  OBVIOUS
<1>3. /\ new \in AuthRequest /\ Update(t, WithRequest(tab[t], w, new))
      /\ new.at = "refused" /\ new.kind = q.kind /\ new.jar = q.jar /\ new.got = q.got
  BY <1>1, <1>2, ReachedRequest DEF At
<1>4. RequestOK(w, new) /\ ~Pending(new)
  BY <1>1, <1>3, RequestKinds DEF RequestOK, Credentials, Pending
<1>5. live' \subseteq Nat \ {None} /\ good' \subseteq Nat /\ events' \in Nat
  <2>1. live \subseteq Nat \ {None} /\ good \subseteq Nat /\ events \in Nat
    BY DEF SessionInv, SessionTypes
  <2>2. live' \subseteq live /\ good' = good /\ events' = events + 1
    BY <1>1 DEF Event
  <2> QED BY <2>1, <2>2
<1>6. UnderWay(t, w)
  BY <1>1 DEF UnderWay
<1> QED BY <1>1, <1>3, <1>4, <1>5, <1>6, ServerStep

LEMMA CheckFailsKeeps ==
  ASSUME SessionInv, NEW t \in Tab, NEW w \in Who, CheckFails(t, w)
  PROVE  SessionInv'
<1> DEFINE q == tab[t].req[w]
<1>1. /\ Event /\ q.kind = "refresh" /\ q.at = "sent" /\ q.jar # None /\ Reached(t, w, "refused")
      /\ promise' = "unknown" /\ UNCHANGED <<stored, cached, cookie, live, good, minted>>
  BY DEF CheckFails, server
<1>2. PICK new : new = [q EXCEPT !.at = "refused"]
  OBVIOUS
<1>3. /\ new \in AuthRequest /\ Update(t, WithRequest(tab[t], w, new))
      /\ new.at = "refused" /\ new.kind = q.kind /\ new.jar = q.jar /\ new.got = q.got
  BY <1>1, <1>2, ReachedRequest DEF At
<1>4. RequestOK(w, new) /\ ~Pending(new)
  BY <1>1, <1>3, RequestKinds DEF RequestOK, Credentials, Pending
<1>5. live' \subseteq Nat \ {None} /\ good' \subseteq Nat /\ events' \in Nat
  BY <1>1 DEF SessionInv, SessionTypes, Event
<1>6. UnderWay(t, w)
  BY <1>1 DEF UnderWay
<1> QED BY <1>1, <1>3, <1>4, <1>5, <1>6, ServerStep

LEMMA UnreachableKeeps ==
  ASSUME SessionInv, NEW t \in Tab, NEW w \in Who, Unreachable(t, w)
  PROVE  SessionInv'
<1> DEFINE q == tab[t].req[w]
<1>1. /\ Event /\ q.at \in {"sent", "ok", "refused"} /\ q.kind \in {"refresh"} \cup Credentials
      /\ q.kind = "refresh" => q.jar # None
      /\ promise' = IF q.at = "sent" THEN promise ELSE "unknown"
      /\ Reached(t, w, "down") /\ UNCHANGED <<stored, cached, cookie, live, good, minted>>
  BY DEF Unreachable, server
<1>2. PICK new : new = [q EXCEPT !.at = "down"]
  OBVIOUS
<1>3. /\ new \in AuthRequest /\ Update(t, WithRequest(tab[t], w, new))
      /\ new.at = "down" /\ new.kind = q.kind /\ new.jar = q.jar /\ new.got = q.got
  BY <1>1, <1>2, ReachedRequest DEF At
<1>4. RequestOK(w, new) /\ ~Pending(new)
  BY <1>1, <1>3, RequestKinds DEF RequestOK, Credentials, Pending
<1>5. live' \subseteq Nat \ {None} /\ good' \subseteq Nat /\ events' \in Nat
  BY <1>1 DEF SessionInv, SessionTypes, Event
<1>6. UnderWay(t, w)
  BY <1>1 DEF UnderWay
<1>7. q.at = "sent" /\ StaysIn(q) => cookie \in live'
  BY <1>1 DEF StaysIn
<1>8. q.at = "sent" /\ StaysOut(q) => StaysOut(new)
  BY <1>1, <1>3 DEF StaysOut
<1>9. promise' # "unknown" => q.at = "sent" /\ promise' = promise
  BY <1>1
<1> QED BY <1>1, <1>3, <1>4, <1>5, <1>6, <1>7, <1>8, <1>9, ServerStep

LEMMA IssueKeeps ==
  ASSUME SessionInv, NEW t \in Tab, tab[t].req["form"].kind \in Credentials, Issue(t)
  PROVE  SessionInv'
<1> DEFINE q == tab[t].req["form"]
<1>0. "form" \in Who
  BY DEF Who
<1>1. /\ q.at = "sent" /\ minted' = minted + 1
      /\ live' = live \cup {minted'} /\ good' = good \cup {minted'}
      /\ Update(t, [tab[t] EXCEPT !.req["form"].at = "ok", !.req["form"].got = minted'])
      /\ UNCHANGED <<stored, cached, cookie, promise, events>>
  BY DEF Issue
<1>2. PICK new : new = [q EXCEPT !.at = "ok", !.got = minted']
  OBVIOUS
<1>3. tab[t] \in TabRecord /\ q \in AuthRequest /\ minted \in Nat /\ minted' \in Nat
  BY <1>0, <1>1 DEF SessionInv, SessionTypes, TabRecord
<1>4. /\ new \in AuthRequest /\ new.at = "ok" /\ new.kind = q.kind /\ new.jar = q.jar /\ new.got = minted'
  BY <1>2, <1>3 DEF AuthRequest, At
<1>5. Update(t, WithRequest(tab[t], "form", new))
  <2>1. [tab[t] EXCEPT !.req["form"].at = "ok", !.req["form"].got = minted'] = WithRequest(tab[t], "form", new)
    BY <1>0, <1>2, <1>3 DEF WithRequest, TabRecord, AuthRequest
  <2> QED BY <1>1, <2>1
<1>6. RequestOK("form", new) /\ new.kind # "refresh"
  BY <1>4 DEF RequestOK, Credentials
<1>7. live' \subseteq Nat \ {None} /\ good' \subseteq Nat /\ events' \in Nat
  BY <1>1, <1>3 DEF SessionInv, SessionTypes, None
<1>8. UnderWay(t, "form")
  BY <1>1 DEF UnderWay
<1>9. StaysOut(new)
  BY <1>6 DEF StaysOut
<1> QED BY <1>0, <1>1, <1>4, <1>5, <1>6, <1>7, <1>8, <1>9, ServerStep

LEMMA ServeSessionKeeps ==
  ASSUME SessionInv, NEW t \in Tab, ServeSession(t)
  PROVE  SessionInv'
<1> DEFINE q == tab[t].req["form"]
<1>0. "form" \in Who
  BY DEF Who
<1>1. /\ q.kind = "session" /\ q.at = "sent" /\ Reached(t, "form", "ok")
      /\ UNCHANGED <<stored, cached, cookie, live, good, minted, promise, events>>
  BY DEF ServeSession, server
<1>2. PICK new : new = [q EXCEPT !.at = "ok"]
  OBVIOUS
<1>3. /\ new \in AuthRequest /\ Update(t, WithRequest(tab[t], "form", new))
      /\ new.at = "ok" /\ new.kind = q.kind /\ new.jar = q.jar /\ new.got = q.got
  BY <1>0, <1>1, <1>2, ReachedRequest DEF At
<1>4. RequestOK("form", new) /\ Pending(q)
  BY <1>1, <1>3 DEF RequestOK, Pending
<1>5. live' \subseteq Nat \ {None} /\ good' \subseteq Nat /\ events' \in Nat
  BY <1>1 DEF SessionInv, SessionTypes
<1>6. UnderWay(t, "form") /\ StaysOut(new)
  BY <1>1, <1>3 DEF UnderWay, StaysOut
<1> QED BY <1>0, <1>1, <1>3, <1>4, <1>5, <1>6, ServerStep

LEMMA ServeLogoutKeeps ==
  ASSUME SessionInv, NEW t \in Tab, ServeLogout(t)
  PROVE  SessionInv'
<1> DEFINE q == tab[t].req["form"]
<1>0. "form" \in Who
  BY DEF Who
<1>1. /\ q.kind = "logout" /\ q.at = "sent" /\ Reached(t, "form", "ok")
      /\ UNCHANGED <<stored, cached, cookie, good, minted, promise>>
      /\ live' = live \ {q.jar} \/ live' = live
      /\ events' = events \/ events' = events + 1
  BY DEF ServeLogout, Event
<1>2. PICK new : new = [q EXCEPT !.at = "ok"]
  OBVIOUS
<1>3. /\ new \in AuthRequest /\ Update(t, WithRequest(tab[t], "form", new))
      /\ new.at = "ok" /\ new.kind = q.kind /\ new.jar = q.jar /\ new.got = q.got
  BY <1>0, <1>1, <1>2, ReachedRequest DEF At
<1>4. RequestOK("form", new) /\ ~Pending(new)
  BY <1>1, <1>3 DEF RequestOK, Pending
<1>5. live' \subseteq Nat \ {None} /\ good' \subseteq Nat /\ events' \in Nat
  <2>1. live \subseteq Nat \ {None} /\ good \subseteq Nat /\ events \in Nat
    BY DEF SessionInv, SessionTypes
  <2>2. live' \subseteq live /\ good' \subseteq good
    BY <1>1
  <2>3. events' \in Nat
    BY <1>1, <2>1
  <2> QED BY <2>1, <2>2, <2>3
<1>6. UnderWay(t, "form") /\ StaysOut(new)
  BY <1>1, <1>3 DEF UnderWay, StaysOut
<1>7. \A n \in live : n # q.jar => n \in live'
  BY <1>1
<1> QED BY <1>0, <1>1, <1>3, <1>4, <1>5, <1>6, <1>7, ServerStep

-----------------------------------------------------------------------------
(* The pages *)

LEMMA TabFacts ==
  ASSUME SessionInv, NEW t \in Tab
  PROVE  /\ RecordOK(tab[t]) /\ WaitsOnFlight(tab[t]) /\ MountSays(tab[t]) /\ ClosedIsIdle(tab[t])
         /\ TabSound(tab[t])
         /\ cookie \in Nat /\ stored \in Nat /\ minted \in Nat /\ cached \in BOOLEAN /\ events \in Nat
         /\ live \subseteq Nat \ {None} /\ good \subseteq Nat
         /\ promise \in {"in", "out", "unknown"}
BY DEF SessionInv, SessionTypes, TabSound

(* A step of the pages that leaves the servers and the cookie alone. *)
LEMMA PageStep ==
  ASSUME SessionInv, NEW t \in Tab, NEW r, TabSound(r), Update(t, r),
         stored' \in Nat, cached' \in BOOLEAN, events' \in Nat,
         UNCHANGED <<cookie, live, good, minted>>,
         promise' \in {promise, "unknown"}, promise' # "unknown" => Unique(tab'),
         \A w \in Who : \/ r.req[w] = tab[t].req[w]
                        \/ tab[t].req[w].at = "none" /\ r.req[w].at = "none"
                        \/ /\ tab[t].req[w].at = "none" /\ r.req[w].at = "sent"
                           /\ r.req[w].jar = cookie /\ r.req[w].kind # "session"
  PROVE  SessionInv'
<1>1. /\ tab' \in [Tab -> TabRecord] /\ tab'[t] = r
      /\ \A u \in Tab \ {t} : tab'[u] = tab[u]
      /\ \A u \in Tab : TabSound(tab'[u])
  BY TabChanges
<1>2. SessionTypes'
  BY <1>1, TabFacts DEF SessionTypes
<1>3. \A w \in Who : \/ tab'[t].req[w] = tab[t].req[w]
                     \/ ~UnderWay(t, w) /\ (tab'[t].req[w].at = "none" \/ Newly(tab'[t].req[w]))
  BY <1>1 DEF UnderWay, Newly
<1>4. live \subseteq live' /\ minted <= minted'
  BY TabFacts
<1>5. promise' # "unknown" => promise' = promise /\ Unique(tab')
  OBVIOUS
<1>6. TokensOK' /\ PromiseKept'
  BY <1>1, <1>2, <1>3, <1>4, <1>5, Adds
<1> QED BY <1>1, <1>2, <1>6 DEF SessionInv

(* A call that a page makes, other than the one of its first load. *)
LEMMA FetchSound ==
  ASSUME NEW r, RecordOK(r), WaitsOnFlight(r), MountSays(r), r.page # "closed",
         NEW why \in Why \ {"mount"}, NEW jar \in Nat, NEW kept \in Nat,
         NEW q, q = apiFetch(r, why, Browser(jar, kept))
  PROVE  TabSound(q) /\ Asks(r, q, jar) /\ q.page = r.page
<1>1. why \in Why /\ "mount" \in Why /\ "client" \in Who
  BY DEF Why, Who
<1>2. /\ RecordOK(q) /\ Asks(r, q, jar) /\ WaitsAs(r, q, {})
      /\ q.req["mount"] = r.req["mount"]
  BY <1>1, Fetches
<1>3. /\ \A y \in Why \ {why} : q.calls[y] = r.calls[y]
      /\ q.page = r.page /\ q.mount = r.mount
  BY <1>1, Fetches
<1>4. WaitsOnFlight(q)
  <2>1. r.req["client"].at # "none" => q.req["client"].at # "none"
    BY <1>1, <1>2, AsksKeeps
  <2> QED BY <1>2, <2>1 DEF WaitsAs, WaitsOnFlight
<1>5. MountSays(q)
  BY <1>1, <1>2, <1>3 DEF MountSays
<1> QED BY <1>2, <1>3, <1>4, <1>5 DEF TabSound, ClosedIsIdle

LEMMA FreshTab ==
  ASSUME SessionInv, NEW p \in Page
  PROVE  LET q == Fresh(p)
         IN  /\ RecordOK(q) /\ q.page = p /\ q.mount = "none" /\ q.mem = stored
             /\ \A y \in Why : q.calls[y].step = "none"
             /\ \A w \in Who : q.req[w].at = "none"
<1>1. /\ NoCall \in Call /\ NoCall.step = "none"
      /\ NoRequest \in AuthRequest /\ NoRequest.at = "none"
  BY DEF NoCall, Call, Step, NoRequest, AuthRequest, At, Kind, None
<1>2. stored \in Nat
  BY DEF SessionInv, SessionTypes
<1>3. /\ Closed \in TabRecord /\ Closed.mount = "none"
      /\ Closed.calls = [y \in Why |-> NoCall] /\ Closed.req = [w \in Who |-> NoRequest]
  BY <1>1 DEF Closed, TabRecord, User, Mounting, Page, None
<1>4. /\ Fresh(p) \in TabRecord /\ Fresh(p).page = p /\ Fresh(p).mem = stored /\ Fresh(p).mount = Closed.mount
      /\ Fresh(p).calls = Closed.calls /\ Fresh(p).req = Closed.req
  BY <1>2, <1>3 DEF Fresh, TabRecord, User
<1> QED BY <1>1, <1>3, <1>4 DEF RecordOK, RequestOK

(* The provider's effect on first load verifies with the token there is, or
   asks for one. *)
LEMMA Mounts ==
  ASSUME NEW r, RecordOK(r), r.page # "closed", r.mount = "none",
         \A y \in Why : r.calls[y].step = "none",
         r.req["mount"].at = "none", r.req["client"].at = "none",
         NEW jar \in Nat, NEW kept \in Nat, NEW q, q = Mounted(r, Browser(jar, kept))
  PROVE  /\ TabSound(q) /\ Asks(r, q, jar) /\ q.page = r.page
         /\ r.mem # None => q.req = r.req
<1>0. "mount" \in Why /\ "mount" \in Who /\ Browser(jar, kept).jar = jar
  BY DEF Why, Who, Browser
<1>1. Waiting(r) = {}
  BY DEF Waiting
<1>2. CASE r.mem # None
  <2>1. PICK f : f = apiFetch(r, "mount", Browser(jar, kept))
    OBVIOUS
  <2>2. /\ RecordOK(f) /\ f.req = r.req /\ Waiting(f) = Waiting(r)
        /\ f.calls["mount"].step # "none" /\ f.page = r.page
    BY <1>0, <1>2, <2>1, Fetches
  <2>3. q = [f EXCEPT !.mount = "me"]
    BY <1>2, <2>1 DEF Mounted
  <2>4. /\ q \in TabRecord /\ q.req = f.req /\ q.calls = f.calls /\ q.page = f.page /\ q.mount = "me"
    BY <2>2, <2>3 DEF RecordOK, TabRecord, Mounting
  <2>5. RecordOK(q)
    BY <2>2, <2>4 DEF RecordOK
  <2>6. Waiting(q) = {}
    BY <1>1, <2>2, <2>4 DEF Waiting
  <2>7. MountSays(q)
    BY <2>2, <2>4 DEF MountSays
  <2> QED BY <2>2, <2>4, <2>5, <2>6, <2>7 DEF TabSound, WaitsOnFlight, ClosedIsIdle, Asks
<1>3. CASE r.mem = None
  <2>1. PICK f : f = Request(r, "mount", "refresh", jar, None)
    OBVIOUS
  <2>2. /\ RecordOK(f) /\ f.req["mount"] = NewRefresh(jar)
        /\ \A x \in Who \ {"mount"} : f.req[x] = r.req[x]
        /\ f.calls = r.calls /\ f.page = r.page
    <3>1. /\ "refresh" \in Kind \ {"none"} /\ None \in Nat
          /\ ("mount" = "form") <=> ("refresh" # "refresh")
      BY DEF Kind, None
    <3> QED BY <1>0, <2>1, <3>1, RequestMade DEF NewRefresh
  <2>3. q = [f EXCEPT !.mount = "fresh"]
    BY <1>0, <1>3, <2>1 DEF Mounted
  <2>4. /\ q \in TabRecord /\ q.req = f.req /\ q.calls = f.calls /\ q.page = f.page /\ q.mount = "fresh"
    BY <2>2, <2>3 DEF RecordOK, TabRecord, Mounting
  <2>5. RecordOK(q)
    BY <2>2, <2>4 DEF RecordOK
  <2>6. Waiting(q) = {}
    BY <1>1, <2>2, <2>4 DEF Waiting
  <2>7. MountSays(q)
    BY <1>0, <2>2, <2>4 DEF MountSays, NewRefresh
  <2>8. Asks(r, q, jar)
    BY <2>2, <2>4 DEF Asks
  <2> QED BY <1>3, <2>2, <2>4, <2>5, <2>6, <2>7, <2>8 DEF TabSound, WaitsOnFlight, ClosedIsIdle
<1> QED BY <1>2, <1>3

LEMMA VisitKeeps ==
  ASSUME SessionInv, NEW t \in Tab, NEW p \in {"home", "signin", "onboarding", "app"}, Visit(t, p)
  PROVE  SessionInv'
<1> DEFINE f == Fresh(middleware(p, cookie))
<1>1. /\ Event /\ tab[t].page = "closed" /\ Update(t, Mounted(f, Browser(cookie, stored)))
      /\ Promised(promise) /\ UNCHANGED <<stored, cached, cookie, live, good, minted>>
  BY DEF Visit, server, AsItIs
<1>2. PICK r : r = Mounted(f, Browser(cookie, stored))
  OBVIOUS
<1>3. middleware(p, cookie) \in Page \ {"closed"}
  BY DEF middleware, Page
<1>4. /\ RecordOK(f) /\ f.page # "closed" /\ f.mount = "none"
      /\ \A y \in Why : f.calls[y].step = "none"
      /\ \A w \in Who : f.req[w].at = "none"
  BY <1>3, FreshTab
<1> HIDE DEF f
<1>5. TabSound(r) /\ Asks(f, r, cookie)
  <2>1. f.req["mount"].at = "none" /\ f.req["client"].at = "none"
    BY <1>4 DEF Who
  <2> QED BY <1>2, <1>4, <2>1, TabFacts, Mounts
<1>6. \A w \in Who : tab[t].req[w].at = "none"
  BY <1>1, TabFacts DEF ClosedIsIdle
<1>7. \A w \in Who : \/ tab[t].req[w].at = "none" /\ r.req[w].at = "none"
                     \/ /\ tab[t].req[w].at = "none" /\ r.req[w].at = "sent"
                        /\ r.req[w].jar = cookie /\ r.req[w].kind # "session"
  BY <1>4, <1>5, <1>6 DEF Asks, NewRefresh
<1>8. promise' \in {promise, "unknown"} /\ (promise' # "unknown" => Unique(tab'))
  BY <1>1, Promises DEF Promised
<1>9. stored' \in Nat /\ cached' \in BOOLEAN /\ events' \in Nat
  BY <1>1, TabFacts DEF Event
<1>10. Update(t, r)
  BY <1>1, <1>2
<1> QED BY <1>1, <1>5, <1>7, <1>8, <1>9, <1>10, PageStep

LEMMA UseAppKeeps ==
  ASSUME SessionInv, NEW t \in Tab, UseApp(t)
  PROVE  SessionInv'
<1>1. /\ Event /\ tab[t].page = "app" /\ Update(t, apiFetch(tab[t], "app", Browser(cookie, stored)))
      /\ Promised(promise) /\ UNCHANGED <<stored, cached, cookie, live, good, minted>>
  BY DEF UseApp, server, AsItIs
<1>2. PICK r : r = apiFetch(tab[t], "app", Browser(cookie, stored))
  OBVIOUS
<1>3. "app" \in Why \ {"mount"}
  BY DEF Why
<1>4. TabSound(r) /\ Asks(tab[t], r, cookie)
  BY <1>1, <1>2, <1>3, TabFacts, FetchSound
<1>5. \A w \in Who : \/ r.req[w] = tab[t].req[w]
                     \/ /\ tab[t].req[w].at = "none" /\ r.req[w].at = "sent"
                        /\ r.req[w].jar = cookie /\ r.req[w].kind # "session"
  BY <1>4 DEF Asks, NewRefresh
<1>6. promise' \in {promise, "unknown"} /\ (promise' # "unknown" => Unique(tab'))
  BY <1>1, Promises DEF Promised
<1>7. stored' \in Nat /\ cached' \in BOOLEAN /\ events' \in Nat
  BY <1>1, TabFacts DEF Event
<1>8. Update(t, r)
  BY <1>1, <1>2
<1> QED BY <1>1, <1>4, <1>5, <1>6, <1>7, <1>8, PageStep

(* Signed in by a provider: a token pair comes with the page, and the request
   that puts it into the cookie is the tab's only one. *)
LEMMA LandKeeps ==
  ASSUME SessionInv, NEW t \in Tab, Land(t)
  PROVE  SessionInv'
<1> DEFINE f == Fresh("callback")
           g == [f EXCEPT !.mem = minted']
           s == Request(g, "form", "session", cookie, minted')
           new == [kind |-> "session", at |-> "sent", jar |-> cookie, got |-> minted']
<1>0. "form" \in Who /\ "mount" \in Who /\ "client" \in Who /\ "callback" \in Page
  BY DEF Who, Page
<1>1. /\ Event /\ tab[t].page = "closed" /\ minted' = minted + 1
      /\ live' = live \cup {minted'} /\ good' = good \cup {minted'} /\ stored' = minted'
      /\ Update(t, Mounted(s, Browser(cookie, minted')))
      /\ Promised(promise) /\ UNCHANGED <<cached, cookie>>
  BY DEF Land
<1>2. minted' \in Nat /\ minted' # None /\ minted \in Nat
  BY <1>1, TabFacts DEF None
<1>3. PICK r : r = Mounted(s, Browser(cookie, minted'))
  OBVIOUS
<1>4. /\ RecordOK(f) /\ f.page = "callback" /\ f.mount = "none"
      /\ \A y \in Why : f.calls[y].step = "none"
      /\ \A w \in Who : f.req[w].at = "none"
  BY <1>0, FreshTab
<1> HIDE DEF f
<1>5. /\ g \in TabRecord /\ g.req = f.req /\ g.calls = f.calls /\ g.page = f.page /\ g.mount = f.mount
      /\ g.mem = minted'
  BY <1>2, <1>4 DEF RecordOK, TabRecord
<1>6. RecordOK(g)
  BY <1>4, <1>5 DEF RecordOK
<1> HIDE DEF g
<1>7. /\ RecordOK(s) /\ s.req["form"] = new /\ \A x \in Who \ {"form"} : s.req[x] = g.req[x]
      /\ s.calls = g.calls /\ s.mem = g.mem /\ s.page = g.page /\ s.mount = g.mount
  <2>1. "session" \in Kind \ {"none"} /\ (("form" = "form") <=> ("session" # "refresh"))
    BY DEF Kind
  <2> QED BY <1>0, <1>2, <1>6, <2>1, TabFacts, RequestMade
<1> HIDE DEF s
<1>8. TabSound(r) /\ r.req = s.req
  <2>1. s.page # "closed" /\ s.mount = "none" /\ s.mem # None /\ \A y \in Why : s.calls[y].step = "none"
    BY <1>2, <1>4, <1>5, <1>7
  <2>2. s.req["mount"].at = "none" /\ s.req["client"].at = "none"
    BY <1>0, <1>4, <1>5, <1>7
  <2> QED BY <1>2, <1>3, <1>7, <2>1, <2>2, TabFacts, Mounts
<1>9. /\ tab' \in [Tab -> TabRecord] /\ tab'[t] = r
      /\ \A u \in Tab \ {t} : tab'[u] = tab[u]
      /\ \A u \in Tab : TabSound(tab'[u])
  BY <1>1, <1>3, <1>8, TabChanges
<1>10. SessionTypes'
  <2>1. live' \subseteq Nat \ {None} /\ good' \subseteq Nat /\ events' \in Nat
    BY <1>1, <1>2, TabFacts DEF Event
  <2>2. promise' \in {"in", "out", "unknown"}
    BY <1>1, TabFacts DEF Promised
  <2> QED BY <1>1, <1>2, <1>9, <2>1, <2>2, TabFacts DEF SessionTypes
<1>11. \A w \in Who : tab[t].req[w].at = "none"
  BY <1>1, TabFacts DEF ClosedIsIdle
<1>12. tab'[t].req["form"] = new /\ \A x \in Who \ {"form"} : tab'[t].req[x].at = "none"
  BY <1>4, <1>5, <1>7, <1>8, <1>9
<1> DEFINE Mine(u, x) == u = t /\ x = "form"
           Others(u, x) == u # t /\ UnderWay(u, x) /\ tab'[u].req[x] = tab[u].req[x]
<1>13. \A u \in Tab, x \in Who : UnderWay(u, x)' => Mine(u, x) \/ Others(u, x)
  BY <1>9, <1>12 DEF UnderWay
<1>14. ASSUME NEW u \in Tab, NEW x \in Who, Others(u, x)
       PROVE  /\ tab[u].req[x].jar \in Nat /\ tab[u].req[x].jar <= minted
              /\ Pending(tab[u].req[x]) => /\ tab[u].req[x].got \in live /\ tab[u].req[x].got \in Nat
                                           /\ tab[u].req[x].got <= minted /\ tab[u].req[x].got # cookie
  BY <1>14, RequestKinds DEF SessionInv, TokensOK, AuthRequest
<1>15. cookie \in Nat /\ cookie <= minted
  BY TabFacts DEF SessionInv, TokensOK
<1>16. \A n \in Nat : n <= minted => n <= minted' /\ n # minted'
  BY <1>1, <1>2
<1>17. new.kind = "session" /\ new.at = "sent" /\ new.jar = cookie /\ new.got = minted'
  OBVIOUS
<1> HIDE DEF new
<1>18. ASSUME NEW u \in Tab, NEW x \in Who, UnderWay(u, x)'
       PROVE  /\ tab'[u].req[x].jar <= minted'
              /\ Pending(tab'[u].req[x]) => /\ tab'[u].req[x].got \in live'
                                            /\ tab'[u].req[x].got <= minted'
                                            /\ tab'[u].req[x].got # cookie'
  <2>1. CASE Mine(u, x)
    BY <1>1, <1>2, <1>12, <1>15, <1>16, <1>17, <2>1
  <2>2. CASE Others(u, x)
    BY <1>1, <1>14, <1>16, <2>2
  <2> QED BY <1>13, <1>18, <2>1, <2>2
<1>19. ASSUME NEW u \in Tab, NEW v \in Tab, NEW x \in Who, NEW y \in Who,
              UnderWay(u, x)', UnderWay(v, y)', Pending(tab'[u].req[x])
       PROVE  /\ tab'[v].req[y].jar # tab'[u].req[x].got
              /\ Pending(tab'[v].req[y]) /\ tab'[v].req[y].got = tab'[u].req[x].got => u = v /\ x = y
  <2>1. CASE Mine(u, x) /\ Mine(v, y)
    BY <1>12, <1>15, <1>16, <1>17, <2>1
  <2>2. CASE Mine(u, x) /\ Others(v, y)
    BY <1>12, <1>14, <1>16, <1>17, <2>2
  <2>3. CASE Others(u, x) /\ Mine(v, y)
    BY <1>12, <1>14, <1>16, <1>17, <1>19, <2>3
  <2>4. CASE Others(u, x) /\ Others(v, y)
    BY <1>19, <2>4 DEF SessionInv, TokensOK
  <2> QED BY <1>13, <1>19, <2>1, <2>2, <2>3, <2>4
<1>20. TokensOK'
  <2>1. cookie' <= minted'
    BY <1>1, <1>15, <1>16
  <2> HIDE DEF Mine, Others
  <2> QED BY <1>18, <1>19, <2>1 DEF TokensOK
<1>21. PromiseKept'
  <2>1. \A u \in Tab, x \in Who : UnderWay(u, x) => tab'[u].req[x] = tab[u].req[x]
    BY <1>9, <1>11 DEF UnderWay
  <2>2. \A u \in Tab, x \in Who : tab'[u].req[x].at # "none" =>
          tab'[u].req[x] = tab[u].req[x] \/ (tab'[u].req[x].at = "sent" /\ tab'[u].req[x].jar = cookie')
    <3> SUFFICES ASSUME NEW u \in Tab, NEW x \in Who, tab'[u].req[x].at # "none"
                 PROVE  tab'[u].req[x] = tab[u].req[x] \/ (tab'[u].req[x].at = "sent" /\ tab'[u].req[x].jar = cookie')
      OBVIOUS
    <3>1. Mine(u, x) \/ Others(u, x)
      BY <1>13 DEF UnderWay
    <3> QED BY <1>1, <1>12, <1>17, <3>1
  <2>3. promise' # "unknown" => promise' = promise /\ Unique(tab')
    BY <1>1, Promises
  <2>4. cookie' = cookie /\ live \subseteq live'
    BY <1>1
  <2> QED BY <1>10, <2>1, <2>2, <2>3, <2>4, PromiseStays
<1> QED BY <1>9, <1>10, <1>20, <1>21 DEF SessionInv

(* Requests that stay the same overlap no more than they did. *)
LEMMA SameRequests ==
  ASSUME SessionInv, promise # "unknown",
         \A u \in Tab, x \in Who : tab'[u].req[x].at # "none" => tab[u].req[x].at # "none"
  PROVE  Unique(tab')
BY DEF SessionInv, PromiseKept, Unique

LEMMA CloseKeeps ==
  ASSUME SessionInv, NEW t \in Tab, Close(t)
  PROVE  SessionInv'
<1>1. /\ Event /\ Update(t, Closed)
      /\ promise' = IF \A w \in Who : tab[t].req[w].at = "none" THEN promise ELSE "unknown"
      /\ UNCHANGED <<stored, cached, cookie, live, good, minted>>
  BY DEF Close, server
<1>2. /\ TabSound(Closed) /\ \A w \in Who : Closed.req[w].at = "none"
  <2>1. /\ NoCall \in Call /\ NoCall.step = "none"
        /\ NoRequest \in AuthRequest /\ NoRequest.at = "none"
    BY DEF NoCall, Call, Step, NoRequest, AuthRequest, At, Kind, None
  <2>2. /\ Closed \in TabRecord /\ Closed.mount = "none"
        /\ Closed.calls = [y \in Why |-> NoCall] /\ Closed.req = [w \in Who |-> NoRequest]
    BY <2>1 DEF Closed, TabRecord, User, Mounting, Page, None
  <2>3. \A y \in Why : Closed.calls[y].step = "none"
    BY <2>1, <2>2
  <2>4. \A w \in Who : Closed.req[w].at = "none"
    BY <2>1, <2>2
  <2>5. "mount" \in Why /\ "mount" \in Who
    BY DEF Why, Who
  <2> QED BY <2>2, <2>3, <2>4, <2>5 DEF TabSound, RecordOK, RequestOK, WaitsOnFlight, Waiting, MountSays, ClosedIsIdle
<1>3. /\ tab' \in [Tab -> TabRecord] /\ tab'[t] = Closed
      /\ \A u \in Tab \ {t} : tab'[u] = tab[u]
      /\ \A u \in Tab : TabSound(tab'[u])
  BY <1>1, <1>2, TabChanges
<1>4. stored' \in Nat /\ cached' \in BOOLEAN /\ events' \in Nat
  BY <1>1, TabFacts DEF Event
<1>5. CASE \A w \in Who : tab[t].req[w].at = "none"
  <2>1. promise' = promise
    BY <1>1, <1>5
  <2>2. promise' # "unknown" => Unique(tab')
    <3>1. \A u \in Tab, x \in Who : tab'[u].req[x].at # "none" => tab[u].req[x].at # "none"
      BY <1>2, <1>3
    <3> QED BY <2>1, <3>1, SameRequests
  <2> QED BY <1>1, <1>2, <1>4, <1>5, <2>1, <2>2, PageStep
<1>6. CASE ~ \A w \in Who : tab[t].req[w].at = "none"
  <2>1. promise' = "unknown"
    BY <1>1, <1>6
  <2>2. SessionTypes'
    BY <1>1, <1>3, <1>4, <2>1, TabFacts DEF SessionTypes
  <2>3. LeftOrNew(<<>>)
    <3>1. \A u, x : <<u, x>> # <<>>
      OBVIOUS
    <3> QED BY <1>2, <1>3, <3>1 DEF LeftOrNew
  <2>4. /\ live \subseteq live' /\ minted <= minted' /\ cookie' <= minted' /\ cookie' = cookie
        /\ cookie' \in {cookie, None}
    BY <1>1, TabFacts DEF SessionInv, TokensOK
  <2>5. TokensOK'
    <3>1. "form" \in Who
      BY DEF Who
    <3> QED BY <2>2, <2>3, <2>4, <3>1, TokensStay
  <2>6. PromiseKept'
    BY <2>1 DEF PromiseKept
  <2> QED BY <1>3, <2>2, <2>5, <2>6 DEF SessionInv
<1> QED BY <1>5, <1>6

(* A tab changes its page. *)
LEMMA PageChanges ==
  ASSUME NEW r, RecordOK(r), NEW p \in Page \ {"closed"}, NEW q, q = [r EXCEPT !.page = p]
  PROVE  /\ RecordOK(q) /\ q.page = p /\ q.req = r.req /\ q.calls = r.calls /\ q.mount = r.mount
         /\ WaitsOnFlight(r) /\ MountSays(r) => TabSound(q)
<1>1. /\ q \in TabRecord /\ q.page = p /\ q.req = r.req /\ q.calls = r.calls /\ q.mount = r.mount
  BY DEF RecordOK, TabRecord
<1>2. RecordOK(q)
  BY <1>1 DEF RecordOK
<1>3. WaitsOnFlight(r) /\ MountSays(r) => WaitsOnFlight(q) /\ MountSays(q)
  BY <1>1 DEF WaitsOnFlight, Waiting, MountSays
<1> QED BY <1>1, <1>2, <1>3 DEF TabSound, ClosedIsIdle

LEMMA Moving ==
  ASSUME SessionInv, NEW t \in Tab, NEW p \in Page \ {"closed"}, Update(t, [tab[t] EXCEPT !.page = p]),
         UNCHANGED <<stored, cached, cookie, live, good, minted, promise>>, events' \in Nat
  PROVE  SessionInv'
<1>1. PICK r : r = [tab[t] EXCEPT !.page = p]
  OBVIOUS
<1>2. TabSound(r) /\ r.req = tab[t].req
  BY <1>1, TabFacts, PageChanges
<1>3. Update(t, r)
  BY <1>1
<1>4. promise' # "unknown" => Unique(tab')
  <2>1. \A u \in Tab, x \in Who : tab'[u].req[x].at # "none" => tab[u].req[x].at # "none"
    BY <1>2, <1>3, TabChanges
  <2> QED BY <2>1, SameRequests
<1>5. stored' \in Nat /\ cached' \in BOOLEAN /\ promise' \in {promise, "unknown"}
  BY TabFacts
<1> QED BY <1>2, <1>3, <1>4, <1>5, PageStep

LEMMA GoKeeps ==
  ASSUME SessionInv, NEW t \in Tab, NEW p \in {"home", "signin", "onboarding", "app"}, Go(t, p)
  PROVE  SessionInv'
<1>1. middleware(p, cookie) \in Page \ {"closed"}
  BY DEF middleware, Page
<1>2. /\ Event /\ Update(t, [tab[t] EXCEPT !.page = middleware(p, cookie)])
      /\ UNCHANGED <<stored, cached, cookie, live, good, minted, promise>>
  BY DEF Go, server
<1>3. events' \in Nat
  BY <1>2, TabFacts DEF Event
<1> QED BY <1>1, <1>2, <1>3, Moving

LEMMA OnboardingGuardKeeps ==
  ASSUME SessionInv, NEW t \in Tab, OnboardingGuard(t)
  PROVE  SessionInv'
<1>1. "signin" \in Page \ {"closed"}
  BY DEF Page
<1>2. /\ Update(t, [tab[t] EXCEPT !.page = "signin"])
      /\ UNCHANGED <<stored, cached, cookie, live, good, minted, promise, events>>
  BY DEF OnboardingGuard, server
<1> QED BY <1>1, <1>2, TabFacts, Moving

(* The form makes a request of its own. *)
LEMMA FormAsks ==
  ASSUME SessionInv, NEW t \in Tab, NEW r, RecordOK(r), r.req = tab[t].req, r.calls = tab[t].calls,
         r.mount = tab[t].mount, r.page = tab[t].page, tab[t].page # "closed",
         tab[t].req["form"].at = "none", NEW kind \in {"login", "register", "logout"}, NEW got \in Nat,
         Update(t, Request(r, "form", kind, cookie, got)), Event, Promised(promise),
         UNCHANGED <<stored, cached, cookie, live, good, minted>>
  PROVE  SessionInv'
<1>0. "form" \in Who /\ "mount" \in Who /\ "client" \in Who
  BY DEF Who
<1>1. PICK q : q = Request(r, "form", kind, cookie, got)
  OBVIOUS
<1>2. /\ RecordOK(q) /\ q.req["form"] = [kind |-> kind, at |-> "sent", jar |-> cookie, got |-> got]
      /\ \A x \in Who \ {"form"} : q.req[x] = r.req[x]
      /\ q.calls = r.calls /\ q.page = r.page /\ q.mount = r.mount
  <2>1. kind \in Kind \ {"none"} /\ (("form" = "form") <=> (kind # "refresh"))
    BY DEF Kind
  <2> QED BY <1>0, <1>1, <2>1, TabFacts, RequestMade
<1>3. TabSound(q)
  BY <1>0, <1>2, TabFacts DEF TabSound, WaitsOnFlight, Waiting, MountSays, ClosedIsIdle
<1>4. \A w \in Who : \/ q.req[w] = tab[t].req[w]
                     \/ /\ tab[t].req[w].at = "none" /\ q.req[w].at = "sent"
                        /\ q.req[w].jar = cookie /\ q.req[w].kind # "session"
  BY <1>2
<1>5. promise' \in {promise, "unknown"} /\ (promise' # "unknown" => Unique(tab'))
  BY Promises DEF Promised
<1>6. stored' \in Nat /\ cached' \in BOOLEAN /\ events' \in Nat
  BY TabFacts DEF Event
<1>7. Update(t, q)
  BY <1>1
<1> QED BY <1>3, <1>4, <1>5, <1>6, <1>7, PageStep

LEMMA SubmitKeeps ==
  ASSUME SessionInv, NEW t \in Tab, NEW mode \in Credentials, Submit(t, mode)
  PROVE  SessionInv'
<1>1. /\ Event /\ tab[t].page = "signin" /\ tab[t].req["form"].at = "none"
      /\ Update(t, Request(tab[t], "form", mode, cookie, None))
      /\ Promised(promise) /\ UNCHANGED <<stored, cached, cookie, live, good, minted>>
  BY DEF Submit, FormIdle, authLogin, server
<1>2. mode \in {"login", "register", "logout"} /\ None \in Nat
  BY DEF Credentials, None
<1> QED BY <1>1, <1>2, TabFacts, FormAsks

LEMMA LogOutKeeps ==
  ASSUME SessionInv, NEW t \in Tab, LogOut(t)
  PROVE  SessionInv'
<1> DEFINE mine == getAccessToken(tab[t], Browser(cookie, stored))
<1>1. /\ Event /\ tab[t].page # "closed" /\ tab[t].req["form"].at = "none"
      /\ Update(t, Request([tab[t] EXCEPT !.mem = mine], "form", "logout", cookie, mine))
      /\ Promised(promise) /\ UNCHANGED <<stored, cached, cookie, live, good, minted>>
  BY DEF LogOut, FormIdle, authLogout, AsItIs, server
<1>2. mine \in Nat
  <2>1. tab[t].mem \in Nat /\ stored \in Nat
    BY TabFacts, RecordsOfTabs
  <2> QED BY <2>1 DEF getAccessToken, Browser
<1> HIDE DEF mine
<1>3. PICK r : r = [tab[t] EXCEPT !.mem = mine]
  OBVIOUS
<1>4. /\ r \in TabRecord /\ r.req = tab[t].req /\ r.calls = tab[t].calls
      /\ r.mount = tab[t].mount /\ r.page = tab[t].page
  BY <1>2, <1>3, TabFacts DEF RecordOK, TabRecord
<1>5. RecordOK(r)
  BY <1>4, TabFacts DEF RecordOK
<1>6. Update(t, Request(r, "form", "logout", cookie, mine))
  BY <1>1, <1>3
<1> QED BY <1>1, <1>2, <1>4, <1>5, <1>6, FormAsks

LEMMA ExpireKeeps ==
  ASSUME SessionInv, NEW n \in good, Expire(n)
  PROVE  SessionInv'
<1>1. /\ events' = events + 1 /\ good' = good \ {n}
      /\ UNCHANGED <<tab, stored, cached, cookie, live, minted, promise>>
  BY DEF Expire, Event
<1>2. SessionTypes'
  BY <1>1 DEF SessionInv, SessionTypes
<1>3. TokensOK'
  BY <1>1 DEF SessionInv, TokensOK, UnderWay
<1>4. PromiseKept'
  BY <1>1 DEF SessionInv, PromiseKept, UnderWay, StaysIn
<1> QED BY <1>1, <1>2, <1>3, <1>4 DEF SessionInv

-----------------------------------------------------------------------------
(* The answers *)

(* The answer to a request arrives: the request is over, and the tab may have
   made others since, with the cookie as the answer leaves it. *)
LEMMA AnswerStep ==
  ASSUME SessionInv, NEW t \in Tab, NEW w \in Who, UnderWay(t, w), NEW r, TabSound(r), Update(t, r),
         stored' \in Nat, cached' \in BOOLEAN, events' \in Nat, UNCHANGED <<live, good, minted>>,
         \/ cookie' \in {cookie, None}
         \/ Pending(tab[t].req[w]) /\ cookie' = tab[t].req[w].got,
         \A x \in Who : \/ x # w /\ r.req[x] = tab[t].req[x]
                        \/ r.req[x].at = "none"
                        \/ r.req[x] = NewRefresh(cookie'),
         promise' \in {"in", "out", "unknown"},
         promise' # "unknown" => Unique(tab') /\ \A u \in Tab, x \in Who : UnderWay(u, x) => u = t /\ x = w,
         promise' = "in" => cookie' \in live,
         promise' = "out" => cookie' = None
  PROVE  SessionInv'
<1>1. /\ tab' \in [Tab -> TabRecord] /\ tab'[t] = r
      /\ \A u \in Tab \ {t} : tab'[u] = tab[u]
      /\ \A u \in Tab : TabSound(tab'[u])
  BY TabChanges
<1>2. cookie' \in Nat /\ cookie' <= minted
  <2>1. cookie \in Nat /\ cookie <= minted /\ minted \in Nat
    BY TabFacts DEF SessionInv, TokensOK
  <2>2. tab[t].req[w].got \in Nat /\ (Pending(tab[t].req[w]) => tab[t].req[w].got <= minted)
    BY RequestKinds DEF SessionInv, TokensOK, AuthRequest
  <2>3. None \in Nat /\ None <= minted
    BY <2>1 DEF None
  <2> QED BY <2>1, <2>2, <2>3
<1>3. SessionTypes'
  BY <1>1, <1>2, TabFacts DEF SessionTypes
<1>4. LeftOrNew(<<t, w>>)
  <2> SUFFICES ASSUME NEW u \in Tab, NEW x \in Who, tab'[u].req[x].at # "none"
               PROVE  \/ tab'[u].req[x] = tab[u].req[x] /\ <<u, x>> # <<t, w>>
                      \/ Newly(tab'[u].req[x])
    BY DEF LeftOrNew
  <2>1. CASE u # t
    BY <1>1, <2>1
  <2>2. CASE u = t
    BY <1>1, <2>2 DEF Newly, NewRefresh
  <2> QED BY <2>1, <2>2
<1>5. live \subseteq live' /\ minted <= minted' /\ cookie' <= minted'
  BY <1>2, TabFacts
<1>6. TokensOK'
  <2>1. \/ cookie' \in {cookie, None}
        \/ UnderWay(t, w) /\ Pending(tab[t].req[w]) /\ cookie' = tab[t].req[w].got
    OBVIOUS
  <2> QED BY <1>3, <1>4, <1>5, <2>1, TokensStay
<1>7. PromiseKept'
  <2>1. promise' = "in" => cookie' \in live'
    OBVIOUS
  <2> QED BY <1>3, <1>4, <2>1, PromiseAnswered
<1> QED BY <1>1, <1>3, <1>6, <1>7 DEF SessionInv

(* What the promise says of the sole request under way, when a refresh is it. *)
LEMMA RefreshPromise ==
  ASSUME SessionInv, NEW t \in Tab, NEW w \in {"client", "mount"}, UnderWay(t, w), promise # "unknown"
  PROVE  /\ \A u \in Tab, x \in Who : UnderWay(u, x) => u = t /\ x = w
         /\ tab[t].req[w].kind = "refresh"
         /\ promise = "in" => /\ tab[t].req[w].at \notin {"empty", "refused"}
                              /\ tab[t].req[w].at \in {"sent", "down"} => cookie \in live
                              /\ tab[t].req[w].at = "ok" => tab[t].req[w].got \in live
         /\ promise = "out" => cookie = None /\ tab[t].req[w].at \in {"sent", "empty"}
<1>0. w \in Who /\ w # "form"
  BY DEF Who
<1>1. tab[t].req[w].kind = "refresh" /\ tab[t].req[w].at # "none"
  BY <1>0, RequestKinds DEF RequestOK, UnderWay
<1>2. \A u \in Tab, x \in Who : UnderWay(u, x) => u = t /\ x = w
  BY <1>0 DEF SessionInv, PromiseKept, Unique, UnderWay
<1>3. tab[t].req[w].at = "ok" => tab[t].req[w].got \in live
  BY <1>0, <1>1 DEF SessionInv, TokensOK, Pending
<1>4. promise = "in" => StaysIn(tab[t].req[w])
  BY <1>0 DEF SessionInv, PromiseKept
<1>5. promise = "out" => StaysOut(tab[t].req[w]) /\ cookie = None
  BY <1>0 DEF SessionInv, PromiseKept
<1> QED BY <1>1, <1>2, <1>3, <1>4, <1>5 DEF StaysIn, StaysOut

(* What an answer to a refresh puts into the cookie. *)
LEMMA JarOfAnswer ==
  ASSUME SessionInv, NEW t \in Tab, NEW w \in {"client", "mount"}, tab[t].req[w].at \in Answered
  PROVE  LET q == tab[t].req[w]
         IN  /\ UnderWay(t, w)
             /\ Jar(q) \in {cookie, None} \/ (Pending(q) /\ Jar(q) = q.got)
             /\ Jar(q) \in Nat
             /\ promise = "in" => Jar(q) \in live
             /\ promise = "out" => Jar(q) = None
<1> DEFINE q == tab[t].req[w]
<1>0. w \in Who
  BY DEF Who
<1>1. UnderWay(t, w) /\ q \in AuthRequest /\ q.at \in {"ok", "empty", "refused", "down"}
  BY <1>0, RequestKinds DEF UnderWay, Answered
<1>2. q.kind = "refresh"
  BY <1>0, <1>1, RequestKinds DEF RequestOK
<1>3. Jar(q) = IF q.at = "ok" THEN q.got ELSE IF q.at = "refused" THEN None ELSE cookie
  BY DEF Jar
<1>4. cookie \in Nat /\ None \in Nat /\ q.got \in Nat
  BY <1>1, TabFacts DEF AuthRequest, None
<1>5. promise = "in" => Jar(q) \in live
  BY <1>1, <1>3, RefreshPromise
<1>6. promise = "out" => Jar(q) = None
  BY <1>1, <1>3, RefreshPromise
<1> QED BY <1>1, <1>2, <1>3, <1>4, <1>5, <1>6 DEF Pending

LEMMA RequestDone ==
  ASSUME SessionInv, NEW t \in Tab, NEW w \in Who, NEW r, r = Done(t, w)
  PROVE  /\ RecordOK(r) /\ r.req[w] = NoRequest /\ NoRequest.at = "none"
         /\ \A x \in Who \ {w} : r.req[x] = tab[t].req[x]
         /\ r.calls = tab[t].calls /\ r.page = tab[t].page /\ r.mount = tab[t].mount /\ r.user = tab[t].user
         /\ Waiting(r) = Waiting(tab[t])
<1>1. NoRequest \in AuthRequest /\ NoRequest.at = "none" /\ RequestOK(w, NoRequest)
  BY DEF NoRequest, AuthRequest, At, Kind, None, RequestOK
<1>2. r = WithRequest(tab[t], w, NoRequest)
  BY DEF Done, WithRequest
<1>3. /\ RecordOK(r) /\ r.req[w] = NoRequest
      /\ \A x \in Who \ {w} : r.req[x] = tab[t].req[x]
      /\ r.calls = tab[t].calls /\ r.page = tab[t].page /\ r.mount = tab[t].mount /\ r.user = tab[t].user
  BY <1>1, <1>2, TabFacts, RequestSet
<1> QED BY <1>1, <1>3 DEF Waiting

(* A page with a request under way is open. *)
LEMMA OpenPage ==
  ASSUME SessionInv, NEW t \in Tab, NEW w \in Who, UnderWay(t, w)
  PROVE  tab[t].page # "closed"
BY TabFacts DEF ClosedIsIdle, UnderWay

(* doRefresh() ends: whoever waited goes on. *)
LEMMA RefreshEnding ==
  ASSUME SessionInv, NEW t \in Tab, NEW n \in Nat, NEW jar \in Nat,
         UnderWay(t, "client"), RefreshEnds(t, n, jar)
  PROVE  /\ stored' = n /\ cached' \in BOOLEAN
         /\ \E r : /\ TabSound(r) /\ Update(t, r)
                   /\ \A x \in Who : \/ x # "client" /\ r.req[x] = tab[t].req[x]
                                     \/ r.req[x].at = "none"
                                     \/ r.req[x] = NewRefresh(jar)
<1>0. "client" \in Who /\ "mount" \in Who /\ "mount" \in Why /\ "me" # "mount" /\ "client" # "mount"
  BY DEF Who, Why
<1>1. PICK d : d = Done(t, "client")
  OBVIOUS
<1>2. PICK s : s = setAccessToken(d, n, jar)
  OBVIOUS
<1>3. PICK v : v = IF n # None THEN s ELSE [s EXCEPT !.user = "none"]
  OBVIOUS
<1>4. PICK dest \in postSignInDestination :
        /\ stored' = n /\ cached' \in {cached, FALSE}
        /\ Update(t, Settled(v, n, Browser(jar, n), dest))
  <2>1. PICK dest \in postSignInDestination :
          /\ stored' = n
          /\ IF n # None
             THEN Update(t, Settled(s, n, Browser(jar, n), dest)) /\ UNCHANGED cached
             ELSE /\ Update(t, Settled(emitAuthExpired(setAccessToken(d, None, jar)), None, Browser(jar, None), dest))
                  /\ cached' = FALSE
    BY <1>1, <1>2 DEF RefreshEnds
  <2>2. CASE n # None
    BY <1>3, <2>1, <2>2
  <2>3. CASE n = None
    <3>1. v = emitAuthExpired(s)
      BY <1>3, <2>3 DEF emitAuthExpired
    <3>2. s = setAccessToken(d, None, jar)
      BY <1>2, <2>3
    <3>3. Update(t, Settled(emitAuthExpired(s), None, Browser(jar, None), dest)) /\ cached' = FALSE
      BY <2>1, <2>3, <3>2
    <3> QED BY <2>1, <2>3, <3>1, <3>3
  <2> QED BY <2>2, <2>3
<1>5. /\ RecordOK(d) /\ d.req["client"].at = "none"
      /\ \A x \in Who \ {"client"} : d.req[x] = tab[t].req[x]
      /\ d.calls = tab[t].calls /\ d.page = tab[t].page /\ d.mount = tab[t].mount
  <2>1. d.req["client"] = NoRequest /\ NoRequest.at = "none"
    BY <1>0, <1>1, RequestDone
  <2> QED BY <1>0, <1>1, <2>1, RequestDone
<1>6. /\ RecordOK(s) /\ s.req = d.req
      /\ \A y \in Why \ {"me"} : s.calls[y] = d.calls[y]
      /\ s.page = d.page /\ s.mount = d.mount
  <2>1. RecordOK(d)
    BY <1>5
  <2>2. RecordOK(s) /\ s.req = d.req
    BY <1>2, <2>1, TokenSet
  <2>3. \A y \in Why \ {"me"} : s.calls[y] = d.calls[y]
    BY <1>2, <2>1, TokenSet
  <2>4. s.page = d.page /\ s.mount = d.mount
    BY <1>2, <2>1, TokenSet
  <2> QED BY <2>2, <2>3, <2>4
<1>7. RecordOK(v) /\ v.req = s.req /\ v.calls = s.calls /\ v.page = s.page /\ v.mount = s.mount
  <2>1. CASE n # None
    BY <1>3, <1>6, <2>1
  <2>2. CASE n = None
    <3>1. v = [s EXCEPT !.user = "none"]
      BY <1>3, <2>2
    <3>2. v \in TabRecord /\ v.req = s.req /\ v.calls = s.calls /\ v.page = s.page /\ v.mount = s.mount
      BY <1>6, <3>1 DEF RecordOK, TabRecord, User
    <3> QED BY <1>6, <3>2 DEF RecordOK
  <2> QED BY <2>1, <2>2
<1>8. MountSays(v)
  <2>1. MountSays(tab[t])
    BY TabFacts
  <2>2. v.calls["mount"] = tab[t].calls["mount"] /\ v.req["mount"] = tab[t].req["mount"] /\ v.mount = tab[t].mount
    BY <1>0, <1>5, <1>6, <1>7
  <2> QED BY <2>1, <2>2 DEF MountSays
<1>9. PICK r : r = Settled(v, n, Browser(jar, n), dest)
  OBVIOUS
<1>10. /\ RecordOK(r) /\ Asks(v, r, jar) /\ MountSays(r) /\ WaitsOnFlight(r)
       /\ Open(v) => Open(r)
  BY <1>7, <1>8, <1>9, Settles
<1>11. TabSound(r)
  <2>1. r.page # "closed"
    BY <1>0, <1>5, <1>6, <1>7, <1>10, OpenPage DEF Open
  <2> QED BY <1>10, <2>1 DEF TabSound, ClosedIsIdle
<1>12. \A x \in Who : \/ x # "client" /\ r.req[x] = tab[t].req[x]
                      \/ r.req[x].at = "none"
                      \/ r.req[x] = NewRefresh(jar)
  BY <1>5, <1>6, <1>7, <1>10 DEF Asks
<1>13. Update(t, r)
  BY <1>4, <1>9
<1>14. cached' \in BOOLEAN
  BY <1>4, TabFacts
<1> QED BY <1>4, <1>11, <1>12, <1>13, <1>14

LEMMA ClientRefreshedKeeps ==
  ASSUME SessionInv, NEW t \in Tab, ClientRefreshed(t)
  PROVE  SessionInv'
<1> DEFINE q == tab[t].req["client"]
<1>0. "client" \in Who /\ "client" \in {"client", "mount"}
  BY DEF Who
<1>1. PICK n : n = IF q.at = "ok" THEN q.got ELSE None
  OBVIOUS
<1>2. /\ q.at \in Answered /\ cookie' = Jar(q) /\ RefreshEnds(t, n, Jar(q))
      /\ Promised(promise) /\ UNCHANGED <<live, good, minted, events>>
  BY <1>1 DEF ClientRefreshed, server
<1>3. n \in Nat
  BY <1>0, <1>1, RequestKinds DEF AuthRequest, None
<1>4. /\ UnderWay(t, "client")
      /\ Jar(q) \in {cookie, None} \/ (Pending(q) /\ Jar(q) = q.got)
      /\ Jar(q) \in Nat
      /\ promise = "in" => Jar(q) \in live
      /\ promise = "out" => Jar(q) = None
  BY <1>0, <1>2, JarOfAnswer
<1>5. /\ stored' = n /\ cached' \in BOOLEAN
      /\ \E r : /\ TabSound(r) /\ Update(t, r)
                /\ \A x \in Who : \/ x # "client" /\ r.req[x] = tab[t].req[x]
                                  \/ r.req[x].at = "none"
                                  \/ r.req[x] = NewRefresh(Jar(q))
  BY <1>2, <1>3, <1>4, RefreshEnding
<1>6. PICK r : /\ TabSound(r) /\ Update(t, r)
               /\ \A x \in Who : \/ x # "client" /\ r.req[x] = tab[t].req[x]
                                 \/ r.req[x].at = "none"
                                 \/ r.req[x] = NewRefresh(Jar(q))
  BY <1>5
<1>7. promise' # "unknown" =>
        promise' = promise /\ Unique(tab') /\ \A u \in Tab, x \in Who : UnderWay(u, x) => u = t /\ x = "client"
  BY <1>0, <1>2, <1>4, Promises, RefreshPromise
<1>8. stored' \in Nat /\ events' \in Nat /\ promise' \in {"in", "out", "unknown"}
  BY <1>2, <1>3, <1>5, TabFacts DEF Promised
<1> QED BY <1>0, <1>2, <1>4, <1>5, <1>6, <1>7, <1>8, AnswerStep

(* The provider's own refresh ends: the tab's record after it. *)
MountOver(t, n, jar) == [MountEnds(Done(t, "mount"), n, jar) EXCEPT !.mount = "done"]

LEMMA MountEnding ==
  ASSUME SessionInv, NEW t \in Tab, NEW n \in Nat, NEW jar \in Nat, UnderWay(t, "mount"),
         NEW r, r = MountOver(t, n, jar)
  PROVE  /\ TabSound(r)
         /\ \A x \in Who : \/ x # "mount" /\ r.req[x] = tab[t].req[x]
                           \/ r.req[x].at = "none"
                           \/ r.req[x] = NewRefresh(jar)
<1>0. "client" \in Who /\ "mount" \in Who /\ "mount" \in Why /\ "me" \in Why /\ "me" # "mount" /\ "client" # "mount"
  BY DEF Who, Why
<1>1. PICK d : d = Done(t, "mount")
  OBVIOUS
<1>2. PICK s : s = setAccessToken(d, n, jar)
  OBVIOUS
<1>3. PICK v : v = apiFetch(s, "me", Browser(jar, n))
  OBVIOUS
<1>4. PICK e : e = MountEnds(d, n, jar)
  OBVIOUS
<1>5. r = [e EXCEPT !.mount = "done"]
  BY <1>1, <1>4 DEF MountOver
<1>6. /\ RecordOK(d) /\ d.req["mount"].at = "none"
      /\ \A x \in Who \ {"mount"} : d.req[x] = tab[t].req[x]
      /\ d.calls = tab[t].calls /\ d.page = tab[t].page
  <2>1. d.req["mount"] = NoRequest /\ NoRequest.at = "none"
    BY <1>0, <1>1, RequestDone
  <2> QED BY <1>0, <1>1, <2>1, RequestDone
<1>7. WaitsOnFlight(d)
  <2>1. Waiting(d) = Waiting(tab[t]) /\ WaitsOnFlight(tab[t])
    BY <1>0, <1>1, RequestDone, TabFacts
  <2> QED BY <1>0, <1>6, <2>1 DEF WaitsOnFlight
<1>8. d.calls["mount"].step = "none"
  BY <1>6, TabFacts DEF MountSays, UnderWay
<1>9. d.page # "closed"
  BY <1>0, <1>6, OpenPage
<1>10. /\ RecordOK(e) /\ Asks(d, e, jar) /\ WaitsOnFlight(e)
       /\ e.calls["mount"].step = "none" /\ e.req["mount"] = d.req["mount"] /\ e.page = d.page
  <2>1. CASE n # None
    <3>1. e = v
      BY <1>2, <1>3, <1>4, <2>1 DEF MountEnds
    <3>2. RecordOK(s) /\ s.req = d.req /\ Waiting(s) = Waiting(d)
      BY <1>2, <1>6, TokenSet
    <3>3. s.calls["mount"] = d.calls["mount"] /\ s.page = d.page
      BY <1>0, <1>2, <1>6, TokenSet
    <3>4. RecordOK(v) /\ Asks(s, v, jar) /\ WaitsAs(s, v, {})
      BY <1>0, <1>3, <3>2, Fetches
    <3>5. v.req["mount"] = s.req["mount"] /\ v.page = s.page /\ v.calls["mount"] = s.calls["mount"]
      BY <1>0, <1>3, <3>2, Fetches
    <3>6. Asks(d, v, jar)
      BY <3>2, <3>4 DEF Asks
    <3>7. WaitsOnFlight(v)
      <4>1. s.req["client"].at # "none" => v.req["client"].at # "none"
        BY <1>0, <3>4, AsksKeeps
      <4> QED BY <1>7, <3>2, <3>4, <4>1 DEF WaitsAs, WaitsOnFlight
    <3> QED BY <1>8, <3>1, <3>2, <3>3, <3>4, <3>5, <3>6, <3>7
  <2>2. CASE n = None /\ d.mount = "fresh"
    <3>1. e = [d EXCEPT !.user = "none"]
      BY <1>4, <2>2 DEF MountEnds
    <3>2. e \in TabRecord /\ e.req = d.req /\ e.calls = d.calls /\ e.page = d.page
      BY <1>6, <3>1 DEF RecordOK, TabRecord, User
    <3>3. RecordOK(e)
      BY <1>6, <3>2 DEF RecordOK
    <3> QED BY <1>6, <1>7, <1>8, <3>2, <3>3 DEF Asks, WaitsOnFlight, Waiting
  <2>3. CASE n = None /\ d.mount # "fresh"
    <3>1. e = d
      BY <1>4, <2>3 DEF MountEnds
    <3> QED BY <1>6, <1>7, <1>8, <3>1 DEF Asks
  <2> QED BY <2>1, <2>2, <2>3
<1>11. /\ r \in TabRecord /\ r.req = e.req /\ r.calls = e.calls /\ r.page = e.page /\ r.mount = "done"
  BY <1>5, <1>10 DEF RecordOK, TabRecord, Mounting
<1>12. TabSound(r)
  <2>1. RecordOK(r) /\ WaitsOnFlight(r)
    BY <1>10, <1>11 DEF RecordOK, WaitsOnFlight, Waiting
  <2>2. MountSays(r) /\ ClosedIsIdle(r)
    BY <1>6, <1>9, <1>10, <1>11 DEF MountSays, ClosedIsIdle
  <2> QED BY <2>1, <2>2 DEF TabSound
<1>13. ASSUME NEW x \in Who
       PROVE  \/ x # "mount" /\ r.req[x] = tab[t].req[x]
              \/ r.req[x].at = "none"
              \/ r.req[x] = NewRefresh(jar)
  <2>1. e.req[x] = d.req[x] \/ e.req[x] = NewRefresh(jar)
    BY <1>10 DEF Asks
  <2> QED BY <1>6, <1>11, <2>1
<1> QED BY <1>12, <1>13

LEMMA MountRefreshedKeeps ==
  ASSUME SessionInv, NEW t \in Tab, MountRefreshed(t)
  PROVE  SessionInv'
<1> DEFINE q == tab[t].req["mount"]
<1>0. "mount" \in Who /\ "mount" \in {"client", "mount"}
  BY DEF Who
<1>1. PICK n : n = IF q.at = "ok" THEN q.got ELSE None
  OBVIOUS
<1>2. /\ q.at \in Answered /\ cookie' = Jar(q)
      /\ stored' = IF n # None THEN n ELSE stored
      /\ cached' \in {cached, FALSE}
      /\ Update(t, [MountEnds(Done(t, "mount"), n, Jar(q)) EXCEPT !.mount = "done"])
      /\ Promised(promise) /\ UNCHANGED <<live, good, minted, events>>
  BY <1>1 DEF MountRefreshed, server
<1>3. n \in Nat
  BY <1>0, <1>1, RequestKinds DEF AuthRequest, None
<1>4. /\ UnderWay(t, "mount")
      /\ Jar(q) \in {cookie, None} \/ (Pending(q) /\ Jar(q) = q.got)
      /\ Jar(q) \in Nat
      /\ promise = "in" => Jar(q) \in live
      /\ promise = "out" => Jar(q) = None
  BY <1>0, <1>2, JarOfAnswer
<1>5. PICK jar : jar = Jar(q)
  OBVIOUS
<1>6. PICK r : r = MountOver(t, n, jar)
  OBVIOUS
<1>7. /\ TabSound(r)
      /\ \A x \in Who : \/ x # "mount" /\ r.req[x] = tab[t].req[x]
                        \/ r.req[x].at = "none"
                        \/ r.req[x] = NewRefresh(jar)
  BY <1>3, <1>4, <1>5, <1>6, MountEnding
<1>8. Update(t, r)
  BY <1>2, <1>5, <1>6 DEF MountOver
<1>9. promise' # "unknown" =>
        promise' = promise /\ Unique(tab') /\ \A u \in Tab, x \in Who : UnderWay(u, x) => u = t /\ x = "mount"
  BY <1>0, <1>2, <1>4, Promises, RefreshPromise
<1>10. /\ stored' \in Nat /\ cached' \in BOOLEAN /\ events' \in Nat
       /\ promise' \in {"in", "out", "unknown"}
  BY <1>2, <1>3, TabFacts DEF Promised
<1>11. \A x \in Who : \/ x # "mount" /\ r.req[x] = tab[t].req[x]
                      \/ r.req[x].at = "none"
                      \/ r.req[x] = NewRefresh(cookie')
  BY <1>2, <1>5, <1>7
<1>12. UNCHANGED <<live, good, minted>> /\ events' \in Nat
  BY <1>2, <1>10
<1>13. cookie' \in {cookie, None} \/ (Pending(q) /\ cookie' = q.got)
  BY <1>2, <1>4
<1>14. (promise' = "in" => cookie' \in live) /\ (promise' = "out" => cookie' = None)
  BY <1>2, <1>4, <1>9
<1> QED BY <1>0, <1>4, <1>7, <1>8, <1>9, <1>10, <1>11, <1>12, <1>13, <1>14, AnswerStep

(* A tab takes a token and a user: it waits for no more than it did. *)
Taken(r, n, jar, u) == [setAccessToken(r, n, jar) EXCEPT !.user = u]

LEMMA TokenTaken ==
  ASSUME NEW r, RecordOK(r), WaitsOnFlight(r), MountSays(r), NEW n \in Nat, NEW jar \in Nat, NEW u \in User,
         NEW q, q = Taken(r, n, jar, u)
  PROVE  RecordOK(q) /\ WaitsOnFlight(q) /\ MountSays(q) /\ q.req = r.req /\ q.page = r.page
<1>0. PICK s : s = setAccessToken(r, n, jar)
  OBVIOUS
<1>1. RecordOK(s) /\ s.req = r.req /\ Waiting(s) = Waiting(r)
  BY <1>0, TokenSet
<1>2. s.calls["mount"] = r.calls["mount"] /\ s.page = r.page /\ s.mount = r.mount
  BY <1>0, TokenSet DEF Why
<1>3. /\ q \in TabRecord /\ q.req = s.req /\ q.calls = s.calls /\ q.page = s.page /\ q.mount = s.mount
  BY <1>0, <1>1 DEF RecordOK, TabRecord, Taken
<1>4. RecordOK(q)
  BY <1>1, <1>3 DEF RecordOK
<1>5. Waiting(q) = Waiting(r)
  BY <1>1, <1>3 DEF Waiting
<1>6. MountSays(q)
  BY <1>1, <1>2, <1>3 DEF MountSays
<1> QED BY <1>1, <1>2, <1>3, <1>4, <1>5, <1>6 DEF WaitsOnFlight

(* The form's request is over. *)
LEMMA FormDone ==
  ASSUME SessionInv, NEW t \in Tab, NEW d, d = Done(t, "form")
  PROVE  /\ RecordOK(d) /\ WaitsOnFlight(d) /\ MountSays(d)
         /\ d.req["form"].at = "none" /\ \A x \in Who \ {"form"} : d.req[x] = tab[t].req[x]
         /\ d.page = tab[t].page
<1>0. "form" \in Who /\ "client" \in Who /\ "mount" \in Who /\ "client" # "form" /\ "mount" # "form"
  BY DEF Who
<1>1. RecordOK(d) /\ d.req["form"] = NoRequest /\ NoRequest.at = "none"
  BY <1>0, RequestDone
<1>2. /\ \A x \in Who \ {"form"} : d.req[x] = tab[t].req[x]
      /\ d.calls = tab[t].calls /\ d.page = tab[t].page /\ d.mount = tab[t].mount
      /\ Waiting(d) = Waiting(tab[t])
  BY <1>0, RequestDone
<1>3. WaitsOnFlight(d) /\ MountSays(d)
  BY <1>0, <1>2, TabFacts DEF WaitsOnFlight, MountSays
<1> QED BY <1>1, <1>2, <1>3

(* What the form's answers do to the promise. *)
LEMMA FormPromise ==
  ASSUME SessionInv, NEW t \in Tab, NEW p, Promised(IF Alone(t, "form") THEN p ELSE "unknown")
  PROVE  /\ promise' \in {p, "unknown"}
         /\ promise' # "unknown" => Unique(tab') /\ \A u \in Tab, x \in Who : UnderWay(u, x) => u = t /\ x = "form"
<1>0. "form" \in Who
  BY DEF Who
<1>1. PICK k : k = IF Alone(t, "form") THEN p ELSE "unknown"
  OBVIOUS
<1>2. Promised(k)
  BY <1>1
<1>3. promise' \in {p, "unknown"}
  BY <1>1, <1>2 DEF Promised
<1>4. ASSUME promise' # "unknown"
      PROVE  Unique(tab') /\ Alone(t, "form")
  <2>1. promise' = k /\ Unique(tab')
    BY <1>2, <1>4, Promises
  <2> QED BY <1>1, <1>4, <2>1
<1> QED BY <1>0, <1>3, <1>4, Sole

LEMMA EnteredKeeps ==
  ASSUME SessionInv, NEW t \in Tab, tab[t].req["form"].kind \in Credentials, Entered(t)
  PROVE  SessionInv'
<1> DEFINE q == tab[t].req["form"]
<1>0. "form" \in Who /\ "client" \in Who /\ "mount" \in Who /\ "me" \in User
  BY DEF Who, User
<1>1. PICK n : n = q.got
  OBVIOUS
<1>2. PICK d : d = Done(t, "form")
  OBVIOUS
<1>3. PICK r : r = Taken(d, n, n, "me")
  OBVIOUS
<1>5. /\ q.at = "ok" /\ cookie' = n /\ stored' = n
      /\ \/ \E p \in Protected : Update(t, [r EXCEPT !.page = middleware(p, n)])
         \/ Update(t, apiFetch(r, "route", Browser(n, n)))
      /\ Promised(IF Alone(t, "form") THEN "in" ELSE "unknown")
      /\ UNCHANGED <<cached, live, good, minted, events>>
  BY <1>1, <1>2, <1>3 DEF Entered, server, Taken
<1>6. UnderWay(t, "form") /\ Pending(q) /\ n \in Nat
  BY <1>0, <1>1, <1>5, RequestKinds DEF UnderWay, Pending, Credentials, AuthRequest
<1>7. n \in live
  BY <1>0, <1>1, <1>6 DEF SessionInv, TokensOK
<1>8. /\ RecordOK(d) /\ WaitsOnFlight(d) /\ MountSays(d)
      /\ d.req["form"].at = "none" /\ \A x \in Who \ {"form"} : d.req[x] = tab[t].req[x]
      /\ d.page = tab[t].page
  BY <1>2, FormDone
<1>9. RecordOK(r) /\ WaitsOnFlight(r) /\ MountSays(r) /\ r.req = d.req /\ r.page = d.page
  BY <1>0, <1>3, <1>6, <1>8, TokenTaken
<1>10. r.page # "closed"
  BY <1>0, <1>6, <1>8, <1>9, OpenPage
<1>11. \E f : TabSound(f) /\ Update(t, f) /\ Asks(r, f, n)
  <2>1. CASE \E p \in Protected : Update(t, [r EXCEPT !.page = middleware(p, n)])
    <3>1. PICK p \in Protected : Update(t, [r EXCEPT !.page = middleware(p, n)])
      BY <2>1
    <3>2. PICK f : f = [r EXCEPT !.page = middleware(p, n)]
      OBVIOUS
    <3>3. middleware(p, n) \in Page \ {"closed"}
      BY DEF middleware, Protected, Page
    <3>4. TabSound(f) /\ f.req = r.req
      BY <1>9, <3>2, <3>3, PageChanges
    <3> QED BY <3>1, <3>2, <3>4 DEF Asks
  <2>2. CASE Update(t, apiFetch(r, "route", Browser(n, n)))
    <3>1. PICK f : f = apiFetch(r, "route", Browser(n, n))
      OBVIOUS
    <3>2. "route" \in Why \ {"mount"}
      BY DEF Why
    <3>3. TabSound(f) /\ Asks(r, f, n)
      BY <1>6, <1>9, <1>10, <3>1, <3>2, FetchSound
    <3> QED BY <2>2, <3>1, <3>3
  <2> QED BY <1>5, <2>1, <2>2
<1>12. PICK f : TabSound(f) /\ Update(t, f) /\ Asks(r, f, n)
  BY <1>11
<1>13. \A x \in Who : \/ x # "form" /\ f.req[x] = tab[t].req[x]
                      \/ f.req[x].at = "none"
                      \/ f.req[x] = NewRefresh(cookie')
  BY <1>5, <1>8, <1>9, <1>12 DEF Asks
<1>14. /\ promise' \in {"in", "unknown"}
       /\ promise' # "unknown" => Unique(tab') /\ \A u \in Tab, x \in Who : UnderWay(u, x) => u = t /\ x = "form"
  BY <1>5, FormPromise
<1>15. /\ stored' \in Nat /\ cached' \in BOOLEAN /\ events' \in Nat /\ UNCHANGED <<live, good, minted>>
  BY <1>5, <1>6, TabFacts
<1>16. cookie' = tab[t].req["form"].got /\ cookie' \in live
  BY <1>1, <1>5, <1>7
<1> QED BY <1>0, <1>6, <1>12, <1>13, <1>14, <1>15, <1>16, AnswerStep

(* A step that ends the form's request and leaves the cookie as it is. *)
LEMMA FailedKeeps ==
  ASSUME SessionInv, NEW t \in Tab, Failed(t)
  PROVE  SessionInv'
<1> DEFINE q == tab[t].req["form"]
<1>0. "form" \in Who
  BY DEF Who
<1>1. PICK d : d = Done(t, "form")
  OBVIOUS
<1>2. /\ q.at = "down" /\ q.kind \in Credentials /\ Update(t, d)
      /\ UNCHANGED <<stored, cached, cookie, live, good, minted, promise, events>>
  BY <1>1 DEF Failed, server
<1>3. UnderWay(t, "form")
  BY <1>2 DEF UnderWay
<1>4. /\ RecordOK(d) /\ WaitsOnFlight(d) /\ MountSays(d)
      /\ d.req["form"].at = "none" /\ \A x \in Who \ {"form"} : d.req[x] = tab[t].req[x]
      /\ d.page = tab[t].page
  BY <1>1, FormDone
<1>5. TabSound(d)
  <2>1. d.page # "closed"
    BY <1>0, <1>3, <1>4, OpenPage
  <2> QED BY <1>4, <2>1 DEF TabSound, ClosedIsIdle
<1>6. \A x \in Who : \/ x # "form" /\ d.req[x] = tab[t].req[x]
                     \/ d.req[x].at = "none"
                     \/ d.req[x] = NewRefresh(cookie')
  BY <1>4
<1>7. tab' \in [Tab -> TabRecord] /\ tab'[t] = d /\ \A u \in Tab \ {t} : tab'[u] = tab[u]
  BY <1>2, <1>5, TabChanges
<1>8. promise' # "unknown" => Unique(tab') /\ \A u \in Tab, x \in Who : UnderWay(u, x) => u = t /\ x = "form"
  <2> SUFFICES ASSUME promise # "unknown"
               PROVE  Unique(tab') /\ \A u \in Tab, x \in Who : UnderWay(u, x) => u = t /\ x = "form"
    BY <1>2
  <2>1. \A u \in Tab, x \in Who : UnderWay(u, x) => u = t /\ x = "form"
    BY <1>0, <1>3 DEF SessionInv, PromiseKept, Unique, UnderWay
  <2>2. \A u \in Tab, x \in Who : tab'[u].req[x].at # "none" => tab[u].req[x].at # "none"
    BY <1>4, <1>7
  <2> QED BY <2>1, <2>2, SameRequests
<1>9. /\ promise = "in" => cookie \in live
      /\ promise = "out" => cookie = None
  BY <1>0, <1>2, <1>3 DEF SessionInv, PromiseKept, StaysIn
<1>10. /\ stored' \in Nat /\ cached' \in BOOLEAN /\ events' \in Nat
       /\ promise' \in {"in", "out", "unknown"} /\ UNCHANGED <<live, good, minted>>
       /\ cookie' \in {cookie, None}
       /\ (promise' = "in" => cookie' \in live) /\ (promise' = "out" => cookie' = None)
  BY <1>2, <1>9, TabFacts
<1> QED BY <1>0, <1>2, <1>3, <1>5, <1>6, <1>8, <1>10, AnswerStep

(* completeOAuthCallback() goes on: the user is looked up. *)
LEMMA SessionSetKeeps ==
  ASSUME SessionInv, NEW t \in Tab, SessionSet(t)
  PROVE  SessionInv'
<1> DEFINE q == tab[t].req["form"]
<1>0. "form" \in Who /\ "callback" \in Why \ {"mount"}
  BY DEF Who, Why
<1>1. PICK n : n = q.got
  OBVIOUS
<1>2. PICK d : d = Done(t, "form")
  OBVIOUS
<1>3. PICK f : f = apiFetch(d, "callback", Browser(n, stored))
  OBVIOUS
<1>4. /\ q.kind = "session" /\ q.at = "ok" /\ cookie' = n /\ Update(t, f)
      /\ Promised(IF Alone(t, "form") THEN "in" ELSE "unknown")
      /\ UNCHANGED <<stored, cached, live, good, minted, events>>
  BY <1>1, <1>2, <1>3 DEF SessionSet, server
<1>5. UnderWay(t, "form") /\ Pending(q) /\ n \in Nat
  BY <1>0, <1>1, <1>4, RequestKinds DEF UnderWay, Pending, AuthRequest
<1>6. n \in live
  BY <1>0, <1>1, <1>5 DEF SessionInv, TokensOK
<1>7. /\ RecordOK(d) /\ WaitsOnFlight(d) /\ MountSays(d)
      /\ d.req["form"].at = "none" /\ \A x \in Who \ {"form"} : d.req[x] = tab[t].req[x]
      /\ d.page = tab[t].page
  BY <1>2, FormDone
<1>8. d.page # "closed" /\ stored \in Nat
  BY <1>0, <1>5, <1>7, OpenPage, TabFacts
<1>9. TabSound(f) /\ Asks(d, f, n)
  BY <1>0, <1>3, <1>5, <1>7, <1>8, FetchSound
<1>10. \A x \in Who : \/ x # "form" /\ f.req[x] = tab[t].req[x]
                      \/ f.req[x].at = "none"
                      \/ f.req[x] = NewRefresh(cookie')
  BY <1>4, <1>7, <1>9 DEF Asks
<1>11. /\ promise' \in {"in", "unknown"}
       /\ promise' # "unknown" => Unique(tab') /\ \A u \in Tab, x \in Who : UnderWay(u, x) => u = t /\ x = "form"
  BY <1>4, FormPromise
<1>12. /\ stored' \in Nat /\ cached' \in BOOLEAN /\ events' \in Nat /\ UNCHANGED <<live, good, minted>>
  BY <1>4, TabFacts
<1>13. cookie' = tab[t].req["form"].got /\ cookie' \in live
  BY <1>1, <1>4, <1>6
<1> QED BY <1>0, <1>4, <1>5, <1>9, <1>10, <1>11, <1>12, <1>13, AnswerStep

(* logout() clears the tab. *)
LEMMA Clears ==
  ASSUME SessionInv, NEW t \in Tab, NEW jar \in Nat, NEW f, f = Cleared(Done(t, "form"), jar)
  PROVE  /\ TabSound(f)
         /\ f.req["form"].at = "none" /\ \A x \in Who \ {"form"} : f.req[x] = tab[t].req[x]
<1>1. PICK d : d = Done(t, "form")
  OBVIOUS
<1>3. PICK r : r = Taken(d, None, jar, "none")
  OBVIOUS
<1>4. /\ RecordOK(d) /\ WaitsOnFlight(d) /\ MountSays(d)
      /\ d.req["form"].at = "none" /\ \A x \in Who \ {"form"} : d.req[x] = tab[t].req[x]
  BY <1>1, FormDone
<1>5. None \in Nat /\ "none" \in User /\ "home" \in Page \ {"closed"}
  BY DEF None, User, Page
<1>6. RecordOK(r) /\ WaitsOnFlight(r) /\ MountSays(r) /\ r.req = d.req
  BY <1>3, <1>4, <1>5, TokenTaken
<1>7. f = [r EXCEPT !.page = "home"]
  <2>1. r \in TabRecord /\ Taken(d, None, jar, "none") = r
    BY <1>3, <1>6 DEF RecordOK
  <2> QED BY <1>1, <2>1 DEF Cleared, Taken
<1>8. TabSound(f) /\ f.req = r.req
  BY <1>5, <1>6, <1>7, PageChanges
<1> QED BY <1>4, <1>6, <1>8

LEMMA LoggedOutKeeps ==
  ASSUME SessionInv, NEW t \in Tab, LoggedOut(t)
  PROVE  SessionInv'
<1> DEFINE q == tab[t].req["form"]
<1>0. "form" \in Who /\ None \in Nat
  BY DEF Who, None
<1>1. PICK f : f = Cleared(Done(t, "form"), None)
  OBVIOUS
<1>2. /\ q.at = "ok" /\ cookie' = None /\ stored' = None /\ cached' = FALSE /\ Update(t, f)
      /\ Promised(IF Alone(t, "form") THEN "out" ELSE "unknown")
      /\ UNCHANGED <<live, good, minted, events>>
  BY <1>1 DEF LoggedOut, server
<1>3. UnderWay(t, "form")
  BY <1>2 DEF UnderWay
<1>4. /\ TabSound(f)
      /\ f.req["form"].at = "none" /\ \A x \in Who \ {"form"} : f.req[x] = tab[t].req[x]
  BY <1>0, <1>1, Clears
<1>5. \A x \in Who : \/ x # "form" /\ f.req[x] = tab[t].req[x]
                     \/ f.req[x].at = "none"
                     \/ f.req[x] = NewRefresh(cookie')
  BY <1>4
<1>6. /\ promise' \in {"out", "unknown"}
      /\ promise' # "unknown" => Unique(tab') /\ \A u \in Tab, x \in Who : UnderWay(u, x) => u = t /\ x = "form"
  BY <1>2, FormPromise
<1>7. /\ stored' \in Nat /\ cached' \in BOOLEAN /\ events' \in Nat /\ UNCHANGED <<live, good, minted>>
  BY <1>0, <1>2, TabFacts
<1> QED BY <1>0, <1>2, <1>3, <1>4, <1>5, <1>6, <1>7, AnswerStep

(* The network loses a request or its answer. *)
LEMMA LoseKeeps ==
  ASSUME SessionInv, NEW t \in Tab, NEW w \in Who, Lose(t, w)
  PROVE  SessionInv'
<1> DEFINE q == tab[t].req[w]
           Rest(r) == \A x \in Who : \/ x # w /\ r.req[x] = tab[t].req[x]
                                     \/ r.req[x].at = "none"
                                     \/ r.req[x] = NewRefresh(cookie)
<1>0. None \in Nat
  BY DEF None
<1>1. /\ Event /\ q.at \in Answered \cup {"sent"} /\ Promised(LostPromise(q))
      /\ UNCHANGED <<cookie, live, good, minted>>
  BY DEF Lose, server
<1>2. /\ \/ w = "client" /\ RefreshEnds(t, None, cookie)
         \/ /\ w = "mount"
            /\ Update(t, [MountEnds(Done(t, w), None, cookie) EXCEPT !.mount = "done"])
            /\ UNCHANGED <<stored, cached>>
         \/ /\ w = "form" /\ q.kind \in Credentials \cup {"session"}
            /\ Update(t, Done(t, w))
            /\ UNCHANGED <<stored, cached>>
         \/ /\ w = "form" /\ q.kind = "logout"
            /\ Update(t, Cleared(Done(t, w), cookie))
            /\ stored' = None /\ cached' = FALSE
  BY DEF Lose
<1>3. UnderWay(t, w)
  BY <1>1 DEF UnderWay, Answered
<1>4. \E r : TabSound(r) /\ Update(t, r) /\ Rest(r) /\ stored' \in Nat /\ cached' \in BOOLEAN
  <2>1. CASE w = "client" /\ RefreshEnds(t, None, cookie)
    <3>1. /\ stored' = None /\ cached' \in BOOLEAN
          /\ \E r : /\ TabSound(r) /\ Update(t, r)
                    /\ \A x \in Who : \/ x # "client" /\ r.req[x] = tab[t].req[x]
                                      \/ r.req[x].at = "none"
                                      \/ r.req[x] = NewRefresh(cookie)
      BY <1>0, <1>3, <2>1, TabFacts, RefreshEnding
    <3> QED BY <1>0, <2>1, <3>1
  <2>2. CASE w = "mount" /\ Update(t, MountOver(t, None, cookie)) /\ UNCHANGED <<stored, cached>>
    <3>1. PICK r : r = MountOver(t, None, cookie)
      OBVIOUS
    <3>2. /\ TabSound(r)
          /\ \A x \in Who : \/ x # "mount" /\ r.req[x] = tab[t].req[x]
                            \/ r.req[x].at = "none"
                            \/ r.req[x] = NewRefresh(cookie)
      BY <1>0, <1>3, <2>2, <3>1, TabFacts, MountEnding
    <3> QED BY <2>2, <3>1, <3>2, TabFacts
  <2>3. CASE w = "form" /\ Update(t, Done(t, w)) /\ UNCHANGED <<stored, cached>>
    <3>1. PICK d : d = Done(t, "form")
      OBVIOUS
    <3>2. /\ RecordOK(d) /\ WaitsOnFlight(d) /\ MountSays(d)
          /\ d.req["form"].at = "none" /\ \A x \in Who \ {"form"} : d.req[x] = tab[t].req[x]
          /\ d.page = tab[t].page
      BY <3>1, FormDone
    <3>3. TabSound(d)
      <4>1. d.page # "closed"
        BY <1>3, <3>2, OpenPage
      <4> QED BY <3>2, <4>1 DEF TabSound, ClosedIsIdle
    <3> QED BY <2>3, <3>1, <3>2, <3>3, TabFacts
  <2>4. CASE w = "form" /\ Update(t, Cleared(Done(t, w), cookie)) /\ stored' = None /\ cached' = FALSE
    <3>1. PICK f : f = Cleared(Done(t, "form"), cookie)
      OBVIOUS
    <3>2. /\ TabSound(f)
          /\ f.req["form"].at = "none" /\ \A x \in Who \ {"form"} : f.req[x] = tab[t].req[x]
      BY <3>1, TabFacts, Clears
    <3> QED BY <1>0, <2>4, <3>1, <3>2
  <2>5. /\ w = "mount"
        /\ Update(t, [MountEnds(Done(t, w), None, cookie) EXCEPT !.mount = "done"])
        /\ UNCHANGED <<stored, cached>>
        => w = "mount" /\ Update(t, MountOver(t, None, cookie)) /\ UNCHANGED <<stored, cached>>
    BY DEF MountOver
  <2> HIDE DEF Rest
  <2> QED BY <1>2, <2>1, <2>2, <2>3, <2>4, <2>5
<1>5. PICK r : TabSound(r) /\ Update(t, r) /\ Rest(r) /\ stored' \in Nat /\ cached' \in BOOLEAN
  BY <1>4
<1>6. ASSUME promise' # "unknown"
      PROVE  /\ promise' = promise /\ Unique(tab') /\ \A u \in Tab, x \in Who : UnderWay(u, x) => u = t /\ x = w
             /\ promise = "in" => cookie \in live
             /\ promise = "out" => cookie = None
  <2>1. promise' = LostPromise(q) /\ Unique(tab')
    BY <1>1, <1>6, Promises
  <2>2. q.kind = "refresh" /\ q.at \in {"sent", "empty", "down"} /\ promise' = promise
    BY <1>6, <2>1 DEF LostPromise
  <2>3. w \in {"client", "mount"}
    <3>1. RequestOK(w, q)
      BY RequestKinds
    <3> QED BY <2>2, <3>1 DEF RequestOK, Who, Credentials
  <2>4. promise # "unknown"
    BY <1>6, <2>2
  <2>5. \A u \in Tab, x \in Who : UnderWay(u, x) => u = t /\ x = w
    BY <1>3, <2>3, <2>4, RefreshPromise
  <2>6. /\ promise = "in" => /\ q.at \notin {"empty", "refused"}
                             /\ q.at \in {"sent", "down"} => cookie \in live
        /\ promise = "out" => cookie = None
    BY <1>3, <2>3, <2>4, RefreshPromise
  <2> QED BY <2>1, <2>2, <2>5, <2>6
<1>7. /\ events' \in Nat /\ UNCHANGED <<live, good, minted>>
  BY <1>1, TabFacts DEF Event
<1>8. promise' \in {"in", "out", "unknown"}
  BY <1>1, TabFacts DEF Promised, LostPromise
<1>9. /\ cookie' \in {cookie, None}
      /\ (promise' = "in" => cookie' \in live) /\ (promise' = "out" => cookie' = None)
  BY <1>1, <1>6
<1>10. \A x \in Who : \/ x # w /\ r.req[x] = tab[t].req[x]
                      \/ r.req[x].at = "none"
                      \/ r.req[x] = NewRefresh(cookie')
  BY <1>1, <1>5
<1> HIDE DEF Rest, q
<1> QED BY <1>3, <1>5, <1>6, <1>7, <1>8, <1>9, <1>10, AnswerStep

-----------------------------------------------------------------------------
(* The calls *)

(* A tab asks for no more than a refresh, and goes on. *)
LEMMA CallStep ==
  ASSUME SessionInv, NEW t \in Tab, NEW r, TabSound(r), Update(t, r), Asks(tab[t], r, cookie),
         cached' \in BOOLEAN, events' \in Nat, Promised(promise), UNCHANGED <<stored, cookie, live, good, minted>>
  PROVE  SessionInv'
<1>1. \A w \in Who : \/ r.req[w] = tab[t].req[w]
                     \/ /\ tab[t].req[w].at = "none" /\ r.req[w].at = "sent"
                        /\ r.req[w].jar = cookie /\ r.req[w].kind # "session"
  BY DEF Asks, NewRefresh
<1>2. promise' \in {promise, "unknown"} /\ (promise' # "unknown" => Unique(tab'))
  BY Promises DEF Promised
<1>3. stored' \in Nat
  BY TabFacts
<1> QED BY <1>1, <1>2, <1>3, PageStep

(* One call ends. *)
LEMMA CallEnds ==
  ASSUME SessionInv, NEW t \in Tab, NEW why \in Why, Fetched(tab[t].calls[why]),
         NEW result \in {"ok", "denied", "failed"}, NEW dest \in postSignInDestination,
         NEW r, r = Ended(tab[t], {why}, result, Browser(cookie, stored), dest)
  PROVE  TabSound(r) /\ Asks(tab[t], r, cookie)
<1>1. PICK ends : ends = {why}
  OBVIOUS
<1>2. ends \in SUBSET Why /\ \A y \in ends : tab[t].calls[y].step # "none"
  BY <1>1 DEF Fetched
<1>3. RecordOK(tab[t]) /\ MountSays(tab[t]) /\ WaitsOnFlight(tab[t]) /\ cookie \in Nat /\ stored \in Nat
  BY TabFacts
<1>4. r = Ended(tab[t], ends, result, Browser(cookie, stored), dest)
  BY <1>1
<1>5. /\ RecordOK(r) /\ Asks(tab[t], r, cookie) /\ MountSays(r) /\ WaitsAs(tab[t], r, ends)
      /\ Open(tab[t]) => Open(r)
  <2>1. PICK jar \in Nat, kept \in Nat : jar = cookie /\ kept = stored
    BY <1>3
  <2>2. PICK o : o = tab[t]
    OBVIOUS
  <2>3. /\ RecordOK(o) /\ MountSays(o) /\ \A y \in ends : o.calls[y].step # "none"
        /\ r = Ended(o, ends, result, Browser(jar, kept), dest)
    BY <1>2, <1>3, <1>4, <2>1, <2>2
  <2>4. RecordOK(r) /\ Asks(o, r, jar)
    BY <1>2, <2>3, Ends
  <2>5. MountSays(r)
    BY <1>2, <2>3, Ends
  <2>7. WaitsAs(o, r, ends)
    BY <1>2, <2>3, Ends
  <2>6. Open(o) => Open(r)
    BY <1>2, <2>3, Ends
  <2> QED BY <2>1, <2>2, <2>4, <2>5, <2>6, <2>7
<1>6. tab[t].page # "closed"
  BY TabFacts DEF ClosedIsIdle, Fetched
<1>7. WaitsOnFlight(r)
  <2>1. "client" \in Who
    BY DEF Who
  <2>2. tab[t].req["client"].at # "none" => r.req["client"].at # "none"
    BY <1>5, <2>1, AsksKeeps
  <2> QED BY <1>3, <1>5, <2>2 DEF WaitsAs, WaitsOnFlight
<1> QED BY <1>5, <1>6, <1>7 DEF TabSound, ClosedIsIdle, Open

(* A call under way changes, and stays under way without waiting. *)
WithCall(r, why, c) == [r EXCEPT !.calls[why] = c]

LEMMA CallSet ==
  ASSUME NEW r, RecordOK(r), NEW why \in Why, NEW c \in Call, NEW q, q = WithCall(r, why, c)
  PROVE  /\ RecordOK(q) /\ q.req = r.req /\ q.page = r.page /\ q.mount = r.mount
         /\ q.calls[why] = c /\ \A y \in Why \ {why} : q.calls[y] = r.calls[y]
<1>1. q \in TabRecord /\ q.req = r.req /\ q.page = r.page /\ q.mount = r.mount /\ q.calls = [r.calls EXCEPT ![why] = c]
  BY DEF RecordOK, TabRecord, WithCall
<1>2. r.calls \in [Why -> Call]
  BY RecordsOfTabs
<1> QED BY <1>1, <1>2 DEF RecordOK

LEMMA CallAnsweredKeeps ==
  ASSUME SessionInv, NEW t \in Tab, NEW why \in Why, CallAnswered(t, why)
  PROVE  SessionInv'
<1> DEFINE c == tab[t].calls[why]
<1>1. /\ Fetched(c)
      /\ Promised(promise) /\ UNCHANGED <<stored, cookie, live, good, minted, events>>
  BY DEF CallAnswered, server
<1>2. PICK dest \in postSignInDestination :
        \/ \E result \in {"ok", "denied"} :
             /\ Update(t, Ended(tab[t], {why}, result, Browser(cookie, stored), dest))
             /\ cached' = CachedAfter(why, result)
        \/ /\ Update(t, refreshAccessToken([tab[t] EXCEPT !.calls[why].step = "renew"], cookie))
           /\ UNCHANGED cached
  BY DEF CallAnswered, AsItIs
<1>3. events' \in Nat /\ cached \in BOOLEAN
  BY <1>1, TabFacts
<1>4. CASE \E result \in {"ok", "denied"} :
             /\ Update(t, Ended(tab[t], {why}, result, Browser(cookie, stored), dest))
             /\ cached' = CachedAfter(why, result)
  <2>1. PICK result \in {"ok", "denied"} :
             /\ Update(t, Ended(tab[t], {why}, result, Browser(cookie, stored), dest))
             /\ cached' = CachedAfter(why, result)
    BY <1>4
  <2>2. PICK r : r = Ended(tab[t], {why}, result, Browser(cookie, stored), dest)
    OBVIOUS
  <2>3. TabSound(r) /\ Asks(tab[t], r, cookie)
    BY <1>1, <2>2, CallEnds
  <2>4. cached' \in BOOLEAN
    BY <1>3, <2>1 DEF CachedAfter
  <2> QED BY <1>1, <1>3, <2>1, <2>2, <2>3, <2>4, CallStep
<1>5. CASE /\ Update(t, refreshAccessToken([tab[t] EXCEPT !.calls[why].step = "renew"], cookie))
           /\ UNCHANGED cached
  <2>1. PICK k : k = [c EXCEPT !.step = "renew"]
    OBVIOUS
  <2>2. RecordOK(tab[t]) /\ c \in Call
    BY TabFacts, RecordsOfTabs
  <2>3. k \in Call /\ k.step = "renew"
    BY <2>1, <2>2 DEF Call, Step
  <2>4. PICK r : r = WithCall(tab[t], why, k)
    OBVIOUS
  <2>5. [tab[t] EXCEPT !.calls[why].step = "renew"] = r
    BY <2>1, <2>2, <2>4 DEF WithCall, RecordOK, TabRecord, Call
  <2>6. /\ RecordOK(r) /\ r.req = tab[t].req /\ r.page = tab[t].page /\ r.mount = tab[t].mount
        /\ r.calls[why] = k /\ \A y \in Why \ {why} : r.calls[y] = tab[t].calls[y]
    BY <2>2, <2>3, <2>4, CallSet, SMTT(30)
  <2>7. PICK q : q = refreshAccessToken(r, cookie)
    OBVIOUS
  <2>8. /\ RecordOK(q) /\ Asks(r, q, cookie)
        /\ q.req["client"].at # "none" /\ q.req["mount"] = r.req["mount"]
        /\ q.calls = r.calls /\ q.page = r.page /\ q.mount = r.mount
    <3>1. cookie \in Nat /\ RecordOK(r)
      BY <2>6, TabFacts
    <3>2. RecordOK(q) /\ Asks(r, q, cookie)
      BY <2>7, <3>1, RefreshAsked
    <3>3. /\ q.req["client"].at # "none" /\ q.req["mount"] = r.req["mount"]
          /\ q.calls = r.calls /\ q.page = r.page /\ q.mount = r.mount
      BY <2>7, <3>1, RefreshAsked
    <3> QED BY <3>2, <3>3
  <2>9. q.calls["mount"].step = "none" <=> tab[t].calls["mount"].step = "none"
    BY <1>1, <2>3, <2>6, <2>8 DEF Fetched, Why
  <2>10. TabSound(q)
    <3>1. tab[t].page # "closed"
      BY <1>1, TabFacts DEF ClosedIsIdle, Fetched
    <3> QED BY <2>6, <2>8, <2>9, <3>1, TabFacts DEF TabSound, WaitsOnFlight, MountSays, ClosedIsIdle
  <2>11. Asks(tab[t], q, cookie)
    BY <2>6, <2>8 DEF Asks
  <2>12. Update(t, q)
    BY <1>5, <2>5, <2>7
  <2> QED BY <1>1, <1>3, <1>5, <2>10, <2>11, <2>12, CallStep
<1> QED BY <1>2, <1>4, <1>5

LEMMA CallBrokenKeeps ==
  ASSUME SessionInv, NEW t \in Tab, NEW why \in Why, CallBroken(t, why)
  PROVE  SessionInv'
<1> DEFINE c == tab[t].calls[why]
<1>1. /\ Event /\ Fetched(c)
      /\ Promised(promise) /\ UNCHANGED <<stored, cached, cookie, live, good, minted>>
  BY DEF CallBroken, server
<1>2. \/ c.left > 1 /\ Update(t, [tab[t] EXCEPT !.calls[why].left = @ - 1])
      \/ \E dest \in postSignInDestination :
           Update(t, Ended(tab[t], {why}, "failed", Browser(cookie, stored), dest))
  BY DEF CallBroken, AsItIs
<1>3. events' \in Nat /\ cached' \in BOOLEAN
  BY <1>1, TabFacts DEF Event
<1>4. CASE c.left > 1 /\ Update(t, [tab[t] EXCEPT !.calls[why].left = @ - 1])
  <2>1. PICK k : k = [c EXCEPT !.left = @ - 1]
    OBVIOUS
  <2>2. RecordOK(tab[t]) /\ c \in Call
    BY TabFacts, RecordsOfTabs
  <2>3. k \in Call /\ k.step = c.step
    BY <1>4, <2>1, <2>2 DEF Call
  <2>4. PICK r : r = WithCall(tab[t], why, k)
    OBVIOUS
  <2>5. [tab[t] EXCEPT !.calls[why].left = @ - 1] = r
    BY <2>1, <2>2, <2>4 DEF WithCall, RecordOK, TabRecord, Call
  <2>6. /\ RecordOK(r) /\ r.req = tab[t].req /\ r.page = tab[t].page /\ r.mount = tab[t].mount
        /\ r.calls[why] = k /\ \A y \in Why \ {why} : r.calls[y] = tab[t].calls[y]
    BY <2>2, <2>3, <2>4, CallSet
  <2>7. \A y \in Why : r.calls[y].step = tab[t].calls[y].step
    BY <2>3, <2>6
  <2>8. Waiting(r) = Waiting(tab[t])
    BY <2>7 DEF Waiting
  <2>9. TabSound(r)
    <3>1. r.calls["mount"].step = tab[t].calls["mount"].step
      BY <2>7 DEF Why
    <3> QED BY <2>6, <2>7, <2>8, <3>1, TabFacts DEF TabSound, WaitsOnFlight, MountSays, ClosedIsIdle
  <2>10. Asks(tab[t], r, cookie)
    BY <2>6 DEF Asks
  <2>11. Update(t, r)
    BY <1>4, <2>5
  <2> QED BY <1>1, <1>3, <2>9, <2>10, <2>11, CallStep
<1>5. CASE \E dest \in postSignInDestination :
             Update(t, Ended(tab[t], {why}, "failed", Browser(cookie, stored), dest))
  <2>1. PICK dest \in postSignInDestination :
             Update(t, Ended(tab[t], {why}, "failed", Browser(cookie, stored), dest))
    BY <1>5
  <2>2. PICK r : r = Ended(tab[t], {why}, "failed", Browser(cookie, stored), dest)
    OBVIOUS
  <2>3. TabSound(r) /\ Asks(tab[t], r, cookie)
    BY <1>1, <2>2, CallEnds
  <2> QED BY <1>1, <1>3, <2>1, <2>2, <2>3, CallStep
<1> QED BY <1>2, <1>4, <1>5

-----------------------------------------------------------------------------
(* The session *)

(* The records that a browser may start with. *)
LEMMA StartingTab ==
  ASSUME stored \in Nat, NEW r \in {Closed, Resting, AtTheForm}
  PROVE  TabSound(r) /\ \A w \in Who : r.req[w].at = "none"
<1>1. /\ NoCall \in Call /\ NoCall.step = "none" /\ NoRequest \in AuthRequest /\ NoRequest.at = "none"
  BY DEF NoCall, NoRequest, Call, Step, AuthRequest, Kind, At, None
<1>2. /\ Closed \in TabRecord /\ Closed.mount = "none" /\ Closed.page = "closed"
      /\ Closed.calls = [y \in Why |-> NoCall] /\ Closed.req = [w \in Who |-> NoRequest]
  BY <1>1 DEF Closed, TabRecord, Page, User, Mounting, None
<1>3. /\ r \in TabRecord /\ r.mount \in {"none", "done"}
      /\ r.calls = Closed.calls /\ r.req = Closed.req
  <2>1. CASE r = Closed
    BY <1>2, <2>1
  <2>2. CASE r = Resting
    BY <1>2, <2>2 DEF Resting, Fresh, TabRecord, Page, User, Mounting
  <2>3. CASE r = AtTheForm
    BY <1>2, <2>3 DEF AtTheForm, TabRecord, Page, User, Mounting
  <2> QED BY <2>1, <2>2, <2>3
<1>4. \A w \in Who : r.req[w].at = "none"
  BY <1>1, <1>2, <1>3
<1>5. \A y \in Why : r.calls[y].step = "none"
  BY <1>1, <1>2, <1>3
<1>6. "mount" \in Why /\ "mount" \in Who
  BY DEF Why, Who
<1> QED BY <1>3, <1>4, <1>5, <1>6 DEF TabSound, RecordOK, RequestOK, WaitsOnFlight, Waiting, MountSays, ClosedIsIdle

LEMMA InitSession ==
  ASSUME AuthInit
  PROVE  SessionInv
<1>1. /\ \/ minted = 0 /\ cookie = None /\ stored = None /\ cached = FALSE /\ promise = "out"
         \/ minted = 1 /\ cookie = 1 /\ stored \in {None, 1} /\ cached \in BOOLEAN /\ promise = "in"
      /\ live = 1..minted /\ good \in {{}, 1..minted} /\ events = 0
  BY DEF AuthInit
<1>2. PICK open \in SUBSET Tab :
        tab = [t \in Tab |-> IF t \notin open THEN Closed ELSE IF promise = "in" THEN Resting ELSE AtTheForm]
  BY DEF AuthInit
<1>3. stored \in Nat /\ cached \in BOOLEAN /\ minted \in Nat /\ cookie \in Nat /\ cookie <= minted
  <2>1. 0 \in Nat /\ 1 \in Nat /\ 0 <= 0 /\ 1 <= 1 /\ FALSE \in BOOLEAN
    OBVIOUS
  <2> QED BY <1>1, <2>1 DEF None
<1>4. live \subseteq Nat \ {None} /\ good \subseteq Nat /\ events \in Nat /\ promise \in {"in", "out", "unknown"}
  BY <1>1 DEF None
<1>5. \A t \in Tab : tab[t] \in {Closed, Resting, AtTheForm}
  BY <1>2
<1>6. \A t \in Tab : TabSound(tab[t]) /\ \A w \in Who : tab[t].req[w].at = "none"
  BY <1>3, <1>5, StartingTab
<1>7. tab \in [Tab -> TabRecord]
  BY <1>2, <1>6 DEF TabSound, RecordOK
<1>8. \A t \in Tab, w \in Who : ~UnderWay(t, w)
  BY <1>6 DEF UnderWay
<1>9. SessionTypes
  BY <1>3, <1>4, <1>7 DEF SessionTypes
<1>10. TokensOK
  BY <1>3, <1>8 DEF TokensOK
<1>11. /\ promise = "in" => cookie \in live
       /\ promise = "out" => cookie = None
  BY <1>1
<1>12. PromiseKept
  BY <1>8, <1>11 DEF PromiseKept, Unique, UnderWay
<1> QED BY <1>6, <1>9, <1>10, <1>12 DEF SessionInv

LEMMA StepSession ==
  ASSUME SessionInv, [AuthNext]_vars
  PROVE  SessionInv'
<1>1. ASSUME NEW t \in Tab, Visitor(t) PROVE SessionInv'
  BY <1>1, LandKeeps, CloseKeeps, UseAppKeeps, LogOutKeeps, SubmitKeeps, VisitKeeps, GoKeeps DEF Visitor
<1>2. ASSUME NEW t \in Tab, Route(t) PROVE SessionInv'
  <2>1. CASE ServeLogin(t) \/ ServeRegister(t)
    BY <2>1, IssueKeeps DEF ServeLogin, ServeRegister, Credentials
  <2>2. CASE ServeSession(t) \/ ServeLogout(t)
    BY <2>2, ServeSessionKeeps, ServeLogoutKeeps
  <2>3. CASE \E w \in Who : CheckRefresh(t, w) \/ RotateRefresh(t, w)
    BY <2>3, CheckRefreshKeeps, RotateRefreshKeeps
  <2> QED BY <1>2, <2>1, <2>2, <2>3 DEF Route
<1>3. ASSUME NEW t \in Tab, Arrive(t) PROVE SessionInv'
  <2>1. CASE ClientRefreshed(t) \/ MountRefreshed(t)
    BY <2>1, ClientRefreshedKeeps, MountRefreshedKeeps
  <2>2. CASE LoggedIn(t) \/ Registered(t)
    BY <2>2, EnteredKeeps DEF LoggedIn, Registered, Credentials
  <2>3. CASE Failed(t) \/ SessionSet(t) \/ LoggedOut(t) \/ OnboardingGuard(t)
    BY <2>3, FailedKeeps, SessionSetKeeps, LoggedOutKeeps, OnboardingGuardKeeps
  <2>4. CASE \E why \in Why : CallAnswered(t, why)
    BY <2>4, CallAnsweredKeeps
  <2> QED BY <1>3, <2>1, <2>2, <2>3, <2>4 DEF Arrive
<1>4. ASSUME NEW t \in Tab, Fault(t) PROVE SessionInv'
  BY <1>4, CheckFailsKeeps, RotateFailsKeeps, UnreachableKeeps, LoseKeeps, CallBrokenKeeps DEF Fault
<1>5. ASSUME NEW n \in good, Expire(n) PROVE SessionInv'
  BY <1>5, ExpireKeeps
<1>6. CASE UNCHANGED vars
  <2>1. SessionTypes' /\ (\A t \in Tab : TabSound(tab[t]))'
    BY <1>6 DEF vars, SessionInv, SessionTypes
  <2>2. TokensOK'
    BY <1>6 DEF vars, SessionInv, TokensOK, UnderWay
  <2>3. PromiseKept'
    BY <1>6 DEF vars, SessionInv, PromiseKept, UnderWay, StaysIn
  <2> QED BY <2>1, <2>2, <2>3 DEF SessionInv
<1> QED BY <1>1, <1>2, <1>3, <1>4, <1>5, <1>6 DEF AuthNext, Progress

LEMMA SessionAlways == AuthSpec => []SessionInv
<1>1. AuthInit => SessionInv
  BY InitSession
<1>2. SessionInv /\ [AuthNext]_vars => SessionInv'
  BY StepSession
<1> QED BY <1>1, <1>2, PTL DEF AuthSpec

(* Rotation keeps the session: as long as no two auth requests overlapped, no
   answer was lost and no refresh that reached the backend failed there, a
   quiet browser that signed in holds a refresh token the backend accepts, and
   one that signed out holds none.  Every token on
   its way to the cookie is accepted and nobody else's, and while something is
   promised at most one request is under way. *)
THEOREM PromiseAlwaysKept == AuthSpec => []SessionAsPromised
<1>1. SessionInv => SessionAsPromised
  <2> SUFFICES ASSUME SessionInv, Quiet
               PROVE  /\ promise = "in" => cookie \in live
                      /\ promise = "out" => cookie = None
    BY DEF SessionAsPromised
  <2>1. \A t \in Tab, w \in Who : ~UnderWay(t, w)
    BY RequestsOf DEF Quiet, UnderWay
  <2> QED BY <2>1 DEF SessionInv, PromiseKept
<1> QED BY <1>1, SessionAlways, PTL

(* Whoever waits for a new token waits for a refresh that is under way, and a
   provider that waits for its first load has a call or a request for it. *)
THEOREM NobodyEverForgotten == AuthSpec => []NobodyIsForgotten
<1>1. SessionInv => NobodyIsForgotten
  <2> SUFFICES ASSUME SessionInv, NEW t \in Tab
               PROVE  /\ (\E y \in Why : tab[t].calls[y].step \in {"need", "renew"}) => tab[t].req["client"].at # "none"
                      /\ tab[t].mount = "me" => tab[t].calls["mount"].step # "none"
                      /\ tab[t].mount \in {"had", "fresh"} => tab[t].req["mount"].at # "none"
    BY DEF NobodyIsForgotten
  <2>1. WaitsOnFlight(tab[t]) /\ MountSays(tab[t])
    BY TabFacts
  <2> QED BY <2>1 DEF WaitsOnFlight, Waiting, MountSays
<1> QED BY <1>1, SessionAlways, PTL
====
